---- MODULE Spec2Model ----
(***************************************************************************)
(* State-machine model of LiveSpectrogramWindow (src/Code/Live_spectogram.py) *)
(* Time is counted in milliseconds.  Qt timers are modelled by the time    *)
(* that remains until they fire; the event loop runs one callback at a     *)
(* time and the clock only moves when no callback is due.                  *)
(***************************************************************************)
EXTENDS Integers, Naturals, Sequences, FiniteSets, TLC

VARIABLES
    mode,            \* self.mode
    running,         \* self.toggle_btn.isChecked()
    \* ---- wideband sweep ----
    sweep_active,    \* self.sweep_active
    sweep_busy,      \* self.sweep_busy
    sweep_ptr,       \* self.sweep_ptr
    cap_retries,     \* self._cap_retries
    step_freq_hz,    \* self._step_freq_hz (None = 0)
    tuned,           \* what self.src.get_center_freq(0) reports
    center_freqs,    \* self.center_freqs
    last_fft,        \* self.last_fft (None = 0)
    sweep_buffer,    \* self.sweep_buffer, one segment per step (0 = zero-filled)
    sweep_timer,     \* self.sweep_timer: ms until the next timeout, -1 = stopped
    begin_timers,    \* pending QTimer.singleShot(.., self.begin_sweep_timer): sorted ms left
    cap_timers,      \* pending QTimer.singleShot(.., self.capture_fft): sorted ms left
    samp_rate,       \* self.samp_rate
    sweep_start_edit, \* self.sweep_start_edit.text() (BadText: a text that does not parse)
    sweep_end_edit,  \* self.sweep_end_edit.text()
    step_fails,      \* history: failed captures since the pointer last moved
    sweep_ev,        \* history: what the last sweep callback did
    cap_tags,        \* history: per pending capture_fft, was it queued before the last
                     \*   re-plan or Stop
    begin_tags,      \* history: the same per pending begin_sweep_timer
    cap_ev,          \* history: the last run of capture_fft
    plan_ev,         \* history: the last run of validate_sweep_inputs
    \* ---- clock and antenna ----
    now,             \* time.time(), in ms
    antenna_select,  \* self.antenna_select
    antenna_ev,      \* the port the switch is set to (src.set_antenna) and, as history,
                     \*   the antenna_changed events of the last update_antenna call
    \* ---- interference detector ----
    bins_ev,               \* history: the last evaluation of the minimum-bin guard
    relief_ev,             \* history: the last evaluation of the occupancy requirement
    fft_size,              \* self.fft_size of a detection window
    worker,                \* DelayToolsWindow.worker: the PortSwitchWorker thread of the
                           \*   latency test, its position and what it has done so far
    jam_timer,             \* self.jam_timer: ms until the next timeout, -1 = stopped
    current_port_index,    \* self.current_port_index
    jam_baseline_db,       \* self.jam_baseline_db: "None", "copy" (= power_db.copy()), "ema"
    jam_started,           \* self.jam_started (None = -1)
    jam_cooldown_until,    \* self.jam_cooldown_until
    jam_ready_at,          \* self.jam_ready_at
    jam_last_switch,       \* self.jam_last_switch
    jam_ignore_until,      \* self.jam_ignore_until
    baseline_freeze_until, \* self._baseline_freeze_until
    score_ema,             \* self._score_ema, in 1/100
    last_score_at_switch,  \* self._last_score_at_switch, in 1/100
    jam_band_state,        \* self._jam_band_state
    jam_med_state,         \* self._jam_med_state
    sfm_ref,               \* self.sfm_ref, in 1/100 dB (None = NoSfm)
    occ_req_ema,           \* self._occ_req_ema, in 1/10000 (None = -1)
    jam_ev,                \* history: what the last detector tick did
    last_fire_at,          \* history: time of the last detector-fired switch (-1 = none)
    fire_count,            \* history: number of detector-fired switches
    trig_streak,           \* history: consecutive evaluated ticks with trigger and stickiness
    true_since,            \* history: first tick of the run of evaluated ticks, none of them
                           \*   with trigger or stickiness false, that lasts until now (-1 = none)
    manual_ops,            \* history: number of operator actions so far
    scene,                 \* environment: what the probe currently shows
    scene_changes,         \* environment: number of changes of the scene so far
    port_set_by,           \* history: who selected the active port ("init", "manual", "detector")
    sweep_start_frac,      \* the part of the Sweep Start text below the MHz, in 1/100 Hz
    last_sweep_sig,        \* self._last_sweep_sig (None = <<>>)
    sweep_avg_alpha,       \* self.sweep_avg_alpha, in 1/100
    sweep_prev_linear,     \* self.sweep_prev_linear: the trace drawn last (None = <<>>)
    peak_enabled,          \* self.peak_enabled
    peak_env,              \* self.peak_env, in 1/100 dB (None or not yet set = <<>>)
    \* ---- time policy ----
    time_inputs,           \* self.time_inputs: the rows (port, duration) typed by the operator
    time_config,           \* self.time_config
    last_time_index,       \* self.last_time_index
    per_port_elapsed,      \* self.per_port_elapsed, a missing key read as 0 (.get(idx, 0.0))
    timer_start_time,      \* self.timer_start_time (None = -1)
    time_timer,            \* self.timer, single shot: ms until the timeout, -1 = stopped
    ran,                   \* history: per row, the time the stream ran in its current slot
    pauses,                \* history: number of Stop presses so far
    time_ev,               \* history: the slot that was completed last
    \* ---- frequency policy ----
    port_inputs,           \* self.port_inputs: per port (in panel order) the range low:high, in 0.1 MHz
    center_freq,           \* self.center_freq in frequency mode, in 0.1 MHz
    freq_ev                \* history: what the last frequency-policy handler did

sweep_vars == <<sweep_active, sweep_busy, sweep_ptr, cap_retries, step_freq_hz,
                tuned, center_freqs, last_fft, sweep_buffer, sweep_timer,
                begin_timers, cap_timers, samp_rate, sweep_start_edit, sweep_end_edit,
                step_fails, sweep_ev, cap_tags, begin_tags, cap_ev, plan_ev,
                sweep_avg_alpha, peak_enabled, sweep_prev_linear, peak_env, sweep_start_frac, last_sweep_sig>>

jam_vars == <<jam_timer, current_port_index, jam_baseline_db, jam_started,
              jam_cooldown_until, jam_ready_at, jam_last_switch, jam_ignore_until,
              baseline_freeze_until, score_ema, last_score_at_switch,
              jam_band_state, jam_med_state, sfm_ref, occ_req_ema, jam_ev,
              last_fire_at, fire_count, trig_streak, true_since, manual_ops,
              scene, scene_changes, port_set_by>>

time_vars == <<time_inputs, time_config, last_time_index, per_port_elapsed,
               timer_start_time, time_timer, ran, pauses, time_ev>>

freq_vars == <<port_inputs, center_freq, freq_ev>>

vars == <<mode, running, now, antenna_select, antenna_ev, bins_ev, relief_ev, fft_size, worker, sweep_vars, jam_vars, time_vars, freq_vars>>

\* the detector's variables but the count of operator actions
JamRestFrame ==
    UNCHANGED <<jam_timer, current_port_index, jam_baseline_db, jam_started,
                jam_cooldown_until, jam_ready_at, jam_last_switch, jam_ignore_until,
                baseline_freeze_until, score_ema, last_score_at_switch,
                jam_band_state, jam_med_state, sfm_ref, occ_req_ema, jam_ev,
                last_fire_at, fire_count, trig_streak, true_since, scene,
                scene_changes, port_set_by>>

\* the detector's variables but the spectrum and the two budgets
SceneFrame ==
    UNCHANGED <<jam_timer, current_port_index, jam_baseline_db, jam_started,
                jam_cooldown_until, jam_ready_at, jam_last_switch, jam_ignore_until,
                baseline_freeze_until, score_ema, last_score_at_switch,
                jam_band_state, jam_med_state, sfm_ref, occ_req_ema, jam_ev,
                last_fire_at, fire_count, trig_streak, true_since, port_set_by>>

\* the time policy's variables but the count of Stop presses
TimeRestFrame ==
    UNCHANGED <<time_inputs, time_config, last_time_index, per_port_elapsed,
                timer_start_time, time_timer, ran, time_ev>>

\* what the sweep callbacks leave alone
SweepFrame == UNCHANGED <<now, antenna_select, antenna_ev, jam_vars, time_vars, freq_vars>>

----------------------------------------------------------------------------
(* Bounds of the model *)
MaxSteps == 2          \* largest number of sweep steps planned
MaxVec == 2            \* distinct capture vectors the probe can deliver
MaxNow == 6200         \* the clock stops here (ms)
MaxManual == 1         \* operator actions (antenna field, knobs) in one run
MaxSceneChanges == 1   \* changes of the spectrum in front of the probe in one run
MaxRows == 2           \* rows (port, duration) of the time policy
MaxDur == 3            \* longest duration of a row (ms)
MaxPauses == 2         \* Stop presses in one run of the time policy
MaxTimeNow == 14       \* the clock of the time policy stops here (ms)

(* Program constants *)
SweepTickMs == 30
SettleMs == 85
RetryMs == 8
BeginDelayMs == 100
MaxCapRetries == 3
DefaultCenterFreq == 100
DefaultSampRate == 20
DefaultSweepStart == 80
DefaultAvgAlpha == 20

None == 0

----------------------------------------------------------------------------
(* Helpers *)
Min(a, b) == IF a <= b THEN a ELSE b
Max(a, b) == IF a >= b THEN a ELSE b
Abs(a) == IF a >= 0 THEN a ELSE -a

RECURSIVE InsertSorted(_, _)
InsertSorted(s, x) ==
    IF s = <<>> THEN <<x>>
    ELSE IF x < Head(s) THEN <<x>> \o s
    ELSE <<Head(s)>> \o InsertSorted(Tail(s), x)

\* QTimer.singleShot(ms, self.capture_fft)
ScheduleCapture(timers, ms) == InsertSorted(timers, ms)

HzPerUnit == 1000000   \* frequencies are counted in MHz

\* abs(tuned - step) > 1.0  (Hz)
TunerOff(t, step) == Abs(t - step) * HzPerUnit > 1

\* texts typed into the antenna field
ManualTexts == {"B1", "b1 ", "C9"}

\* str(val).strip().upper(), on the texts of the model
StripUpper(text) == IF text = "b1 " THEN "B1" ELSE text

\* what update_antenna did last: the port it set the switch to
\* (src.set_antenna; 'A4' from the constructor), the number of
\* antenna_changed events it emitted, the identifier they carried, the text
\* it was given, and the number of times the antenna field was confirmed
NoAntennaEv == [hw |-> "A4", emitted |-> 0, carried |-> "", text |-> "", typed |-> 0]

\* the branch "if val in valid" of a call with the identifier val
AntennaSet(val) ==
    [antenna_ev EXCEPT !.hw = val, !.emitted = 1, !.carried = val, !.text = val]

\* the branch "else": a warning, and the field shows the active port again
AntennaRejected(text) ==
    [antenna_ev EXCEPT !.emitted = 0, !.carried = "", !.text = text]

SweepModes == {"wide spectrum", "wide spectrum frequency"}

----------------------------------------------------------------------------
(* Sweep planning: validate_sweep_inputs, the planning part *)

\* the step count rounded down instead of up
NumStepsFloor(sweep_start, sweep_end, step) == (sweep_end - sweep_start) \div step

\* num_steps = int(np.ceil((sweep_end - sweep_start) / step))
NumSteps(sweep_start, sweep_end, step) ==
    ((sweep_end - sweep_start) + step - 1) \div step

\* center_freqs = [sweep_start + (i + 0.5) * step for i in range(num_steps)]
\* (0-based list kept as a 1-based sequence; step is even in the model)
PlanCenterFreqs(sweep_start, sweep_end, step) ==
    [k \in 1..NumSteps(sweep_start, sweep_end, step) |->
        sweep_start + ((2 * (k - 1) + 1) * step) \div 2]

\* sweep_buffer = np.zeros(total_bins) / sweep_buffer.fill(0.0), one cell per step
ZeroBuffer(n) == [k \in 1..n |-> 0]

\* self.fft_size, scaled down: the bins of one step
FftBins == 3

\* the stitched axis is counted in 1 / AxisScale MHz, which keeps every bin
\* frequency a whole number
AxisScale == FftBins * (FftBins - 1)

\* np.linspace(lo, hi, num, endpoint=True): the right edge is a bin
BinOffsetsClosed(lo, hi, num) == [j \in 1..num |-> lo + ((j - 1) * (hi - lo)) \div (num - 1)]

\* np.linspace(lo, hi, num, endpoint=False)
BinOffsets(lo, hi, num) == [j \in 1..num |-> lo + ((j - 1) * (hi - lo)) \div num]

\* np.concatenate([bin_freqs + cf for cf in self.center_freqs])
RECURSIVE Concatenate(_, _)
Concatenate(bin_freqs, cfs) ==
    IF cfs = <<>> THEN <<>>
    ELSE [j \in 1..Len(bin_freqs) |-> bin_freqs[j] + Head(cfs) * AxisScale]
            \o Concatenate(bin_freqs, Tail(cfs))

\* freq_axis of a plan: bin_freqs = np.linspace(-step / 2, step / 2, fft_size, endpoint=False)
StitchedAxis(cfs, step) ==
    Concatenate(BinOffsets(0 - (step * AxisScale) \div 2, (step * AxisScale) \div 2, FftBins), cfs)

\* mask = (freq_axis >= start) & (freq_axis <= end);  x_hz = freq_axis[idx]
Masked(axis, start, end) ==
    LET Inside(f) == f >= start * AxisScale /\ f <= end * AxisScale
    IN SelectSeq(axis, Inside)

----------------------------------------------------------------------------
(* Pending single-shot callbacks carry a tag: TRUE when the callback was   *)
(* queued before the last re-plan or Stop.                                 *)

\* the place InsertSorted gives x in the sorted sequence s
InsertPos(s, x) == 1 + Cardinality({i \in 1..Len(s) : s[i] <= x})

InsertTag(tags, s, x, tag) ==
    SubSeq(tags, 1, InsertPos(s, x) - 1) \o <<tag>> \o SubSeq(tags, InsertPos(s, x), Len(tags))

AllStale(tags) == [i \in 1..Len(tags) |-> TRUE]

\* what one run of capture_fft did: the branch, the tag of the callback,
\* the pointer, the frequency the receiver was tuned to, and the centre
\* frequency the plan has at the pointer
CapEv(k) ==
    [kind |-> k, stale |-> Head(cap_tags), ptr |-> sweep_ptr, tuned |-> tuned,
     cf |-> IF sweep_ptr < Len(center_freqs) THEN center_freqs[sweep_ptr + 1] ELSE None]

NoCapEv == [kind |-> "none", stale |-> FALSE, ptr |-> 0, tuned |-> 0, cf |-> 0]

\* what one run of validate_sweep_inputs did: the branch and the inputs it
\* read (frac: the part of the start below the MHz, which every centre
\* frequency and every bin of the axis carries), whether the signature was
\* that of the last plan, whether the buffer was allocated anew and whether
\* the "[SWEEP] Configured" line was printed
PlanEv(k, s, e, rate) ==
    [kind |-> k, start |-> s, end |-> e, rate |-> rate, frac |-> 0,
     same |-> FALSE, realloc |-> FALSE, logged |-> FALSE]

\* what the sweep callbacks leave alone of the plan's inputs
PlanFrame ==
    UNCHANGED <<samp_rate, sweep_start_edit, sweep_end_edit, plan_ev, sweep_avg_alpha, peak_enabled,
                sweep_start_frac, last_sweep_sig>>

----------------------------------------------------------------------------
(* update_sweep_freq: the sweep timer's timeout slot.                      *)
(*   setOk: self.src.set_center_freq(cf_hz) returns (FALSE: it raises)     *)
(*   getOk: self.src.get_center_freq(0) returns (FALSE: it raises)         *)
SweepTickGuard ==
    /\ mode \in SweepModes
    /\ sweep_active
    /\ ~sweep_busy
    /\ Len(center_freqs) > 0

update_sweep_freq(getOk, setOk) ==
    /\ sweep_timer = 0
    /\ sweep_timer' = SweepTickMs
    /\ IF ~SweepTickGuard
       THEN /\ sweep_ev' = "tick_noop"
            /\ UNCHANGED <<sweep_busy, sweep_ptr, cap_retries, step_freq_hz,
                           tuned, cap_timers, cap_tags>>
       ELSE LET ptr == IF sweep_ptr >= Len(center_freqs) THEN 0 ELSE sweep_ptr
                cf  == center_freqs[ptr + 1]
                retune == (~getOk) \/ TunerOff(tuned, cf)
            IN /\ sweep_busy' = TRUE
               /\ sweep_ptr' = ptr
               /\ step_freq_hz' = cf
               /\ cap_retries' = 0
               /\ tuned' = IF retune /\ setOk THEN cf ELSE tuned
               /\ cap_timers' = ScheduleCapture(cap_timers, SettleMs)
               /\ cap_tags' = InsertTag(cap_tags, cap_timers, SettleMs, FALSE)
               /\ sweep_ev' = "tick"
    /\ UNCHANGED <<mode, bins_ev, relief_ev, fft_size, worker, running, sweep_active, center_freqs, last_fft,
                   sweep_buffer, begin_timers, begin_tags, step_fails, cap_ev,
                   sweep_prev_linear, peak_env>>
    /\ PlanFrame
    /\ SweepFrame

----------------------------------------------------------------------------
(* capture_fft: the settle / retry single-shot callback.                   *)
(*   getOk1, getOk2: get_center_freq(0) returns before / after the read    *)
(*   raw: the vector read from the probe; 0 stands for an unusable vector  *)
(*        (None, wrong length, non-finite), 1..MaxVec for usable vectors   *)

\* the pointer moved on without wrapping round
AdvanceNoWrap(ptr, n) == ptr + 1

\* self.sweep_ptr = (self.sweep_ptr + 1) % len(self.center_freqs)
Advance(ptr, n) == (ptr + 1) % n

\* capture_fft with the skip branch forgetting to advance the pointer
CaptureFailNoAdvance(kind) ==
    /\ IF cap_retries < MaxCapRetries
       THEN /\ cap_retries' = cap_retries + 1
            /\ cap_timers' = ScheduleCapture(Tail(cap_timers), RetryMs)
            /\ cap_tags' = InsertTag(Tail(cap_tags), Tail(cap_timers), RetryMs, FALSE)
            /\ sweep_ev' = "retry_" \o kind
            /\ cap_ev' = CapEv("retry")
       ELSE /\ cap_retries' = 0
            /\ cap_timers' = Tail(cap_timers)
            /\ cap_tags' = Tail(cap_tags)
            /\ sweep_ev' = "skip_" \o kind
            /\ cap_ev' = CapEv("skip")
    /\ sweep_ptr' = sweep_ptr
    /\ step_fails' = Min(step_fails + 1, 3 * MaxCapRetries)
    /\ sweep_busy' = FALSE
    /\ UNCHANGED <<last_fft, sweep_buffer, sweep_prev_linear, peak_env>>

\* a failed check: "if self._cap_retries < 3: retry  else: skip the step"
\* Leaving through return runs "finally: self.sweep_busy = False".
CaptureFail(kind) ==
    /\ IF cap_retries < MaxCapRetries
       THEN /\ cap_retries' = cap_retries + 1
            /\ cap_timers' = ScheduleCapture(Tail(cap_timers), RetryMs)
            /\ cap_tags' = InsertTag(Tail(cap_tags), Tail(cap_timers), RetryMs, FALSE)
            /\ sweep_ptr' = sweep_ptr
            /\ step_fails' = step_fails + 1
            /\ sweep_ev' = "retry_" \o kind
            /\ cap_ev' = CapEv("retry")
       ELSE /\ sweep_ptr' = Advance(sweep_ptr, Len(center_freqs))
            /\ cap_retries' = 0
            /\ cap_timers' = Tail(cap_timers)
            /\ cap_tags' = Tail(cap_tags)
            /\ step_fails' = 0
            /\ sweep_ev' = "skip_" \o kind
            /\ cap_ev' = CapEv("skip")
    /\ sweep_busy' = FALSE
    /\ UNCHANGED <<last_fft, sweep_buffer, sweep_prev_linear, peak_env>>

\* np.allclose(mags, self.last_fft, rtol=0.0, atol=1e-8): vectors are
\* identified by number, equal numbers are equal vectors
Stale(raw) == last_fft # None /\ raw = last_fft

\* "Ensure sweep buffer": a buffer of another size than the plan is replaced
EnsuredBuffer ==
    IF Len(sweep_buffer) # Len(center_freqs)
    THEN ZeroBuffer(Len(center_freqs)) ELSE sweep_buffer

\* sm_lin = (1.0 - a) * prev + a * y_lin, seeded with y_lin when there is no
\* earlier trace of the same size; magnitudes are whole numbers, rounded down
Smoothed(a, prev, y) ==
    LET p == IF prev = <<>> \/ Len(prev) # Len(y) THEN y ELSE prev
    IN [i \in 1..Len(y) |-> ((100 - a) * p[i] + a * y[i]) \div 100]

\* 100 * 20 * log10(m) for the magnitudes m = 1 .. 8, rounded to the nearest
DbTable == <<0, 602, 954, 1204, 1398, 1556, 1690, 1806>>

\* np.maximum(db, -140.0), in 1/100 dB
DbFloor == 0 - 14000

\* db = max(20 * log10(clip(m, 1e-12, 1e9)) + sweep_db_cal, -140), in 1/100
\* dB; sweep_db_cal is 0.0 and the magnitudes of the model stay below 9
ToDb(m) == IF m <= 0 THEN DbFloor ELSE DbTable[IF m > Len(DbTable) THEN Len(DbTable) ELSE m]

\* the dB trace of a linear trace
DbOf(lin) == [i \in 1..Len(lin) |-> ToDb(lin[i])]

\* the overlay shows the latest trace only
PeakLatest(peak, db) == db

\* the peak-hold overlay: a copy of the trace when there is no envelope of
\* its size, np.maximum(self.peak_env, db) otherwise
PeakHeld(peak, db) ==
    IF peak = <<>> \/ Len(peak) # Len(db) THEN db
    ELSE [i \in 1..Len(db) |-> IF peak[i] >= db[i] THEN peak[i] ELSE db[i]]

\* The fallback axis of a failed planning has no bin inside the sweep's span
\* (idx.size == 0): the capture is written and the trace is left alone.
CaptureAccept(raw) ==
    /\ last_fft' = raw
    /\ sweep_buffer' = [EnsuredBuffer EXCEPT ![sweep_ptr + 1] = raw]
    /\ sweep_prev_linear' = IF plan_ev.kind = "ok"
                            THEN Smoothed(sweep_avg_alpha, sweep_prev_linear, sweep_buffer')
                            ELSE sweep_prev_linear
    /\ peak_env' = IF plan_ev.kind = "ok" /\ peak_enabled
                   THEN PeakHeld(peak_env, DbOf(sweep_prev_linear'))
                   ELSE peak_env
    /\ sweep_ptr' = Advance(sweep_ptr, Len(center_freqs))
    /\ cap_retries' = 0
    /\ cap_timers' = Tail(cap_timers)
    /\ cap_tags' = Tail(cap_tags)
    /\ step_fails' = 0
    /\ sweep_ev' = "accept"
    /\ cap_ev' = CapEv("write")
    /\ sweep_busy' = FALSE

\* an early return of capture_fft
CaptureGuard ==
    /\ sweep_busy' = FALSE
    /\ cap_timers' = Tail(cap_timers)
    /\ cap_tags' = Tail(cap_tags)
    /\ sweep_ev' = "guard"
    /\ cap_ev' = CapEv("guard")

capture_fft(getOk1, raw, getOk2) ==
    /\ cap_timers # <<>>
    /\ Head(cap_timers) = 0
    /\ IF ~(mode \in SweepModes) \/ ~sweep_active \/ Len(center_freqs) = 0
       THEN /\ CaptureGuard
            /\ UNCHANGED <<sweep_ptr, cap_retries, last_fft, sweep_buffer, step_fails,
                           sweep_prev_linear, peak_env>>
       ELSE IF step_freq_hz = None
       THEN /\ CaptureGuard
            /\ cap_retries' = 0
            /\ UNCHANGED <<sweep_ptr, last_fft, sweep_buffer, step_fails,
                           sweep_prev_linear, peak_env>>
       ELSE IF getOk1 /\ TunerOff(tuned, step_freq_hz) THEN CaptureFail("tuner")
       ELSE IF raw = 0 THEN CaptureFail("vector")
       ELSE IF ~getOk2 \/ TunerOff(tuned, step_freq_hz) THEN CaptureFail("moved")
       ELSE IF Stale(raw) THEN CaptureFail("stale")
       ELSE CaptureAccept(raw)
    /\ UNCHANGED <<mode, bins_ev, relief_ev, fft_size, worker, running, sweep_active, step_freq_hz, tuned,
                   center_freqs, sweep_timer, begin_timers, begin_tags>>
    /\ PlanFrame
    /\ SweepFrame

----------------------------------------------------------------------------
(* begin_sweep_timer: connects update_sweep_freq and starts the 30 ms timer *)
begin_sweep_timer ==
    /\ begin_timers # <<>>
    /\ Head(begin_timers) = 0
    /\ begin_timers' = Tail(begin_timers)
    /\ begin_tags' = Tail(begin_tags)
    /\ sweep_timer' = IF mode \in SweepModes THEN SweepTickMs ELSE sweep_timer
    /\ UNCHANGED <<mode, bins_ev, relief_ev, fft_size, worker, running, sweep_active, sweep_busy, sweep_ptr, cap_retries,
                   step_freq_hz, tuned, center_freqs, last_fft, sweep_buffer,
                   cap_timers, cap_tags, step_fails, sweep_ev, cap_ev,
                   sweep_prev_linear, peak_env>>
    /\ PlanFrame
    /\ SweepFrame

----------------------------------------------------------------------------
(* validate_sweep_inputs.  Frequencies are counted in MHz; the texts are   *)
(* either BadText or a frequency inside 1 Hz .. 4 GHz.                     *)

BadText == 0 - 1

\* what validate_sweep_inputs leaves behind, given the texts, the rate and
\* toggle_btn.isChecked():
\*   a text that does not parse: the fallback buffer, the stream stopped
\*   end <= start: the fallback buffer, the stream and the sweep timer stopped
\*   otherwise: the new plan, a zeroed buffer, the pointer at 0
\* round(sweep_start, 1): the part below the MHz to the nearest 1/10 Hz
RoundTenth(c) == ((c + 5) \div 10) * 10

\* sig = (round(sweep_start, 1), round(sweep_end, 1), int(round(step)),
\*        int(self.fft_size), int(num_steps)); the end and the rate of the
\* model are whole MHz, which the rounding leaves as they are
Sig(s, f, e, rate) == <<s, RoundTenth(f), e, rate, FftBins, NumSteps(s, e, rate)>>

\* every planning allocates a new buffer
ReallocAlways(size, total) == TRUE

\* "if self.sweep_buffer.size != self.total_bins: np.zeros  else: fill(0.0)"
NeedsRealloc(size, total) == size # total

Validated(s, f, e, rate, checked) ==
    IF s = BadText \/ e = BadText
    THEN [ok |-> FALSE, center_freqs |-> center_freqs, sweep_buffer |-> ZeroBuffer(1),
          sweep_ptr |-> sweep_ptr, sweep_timer |-> sweep_timer,
          sweep_prev_linear |-> sweep_prev_linear, peak_env |-> peak_env, last_sweep_sig |-> last_sweep_sig,
          plan_ev |-> [PlanEv("unparsed", s, e, rate) EXCEPT !.frac = f]]
    ELSE IF e <= s
    THEN [ok |-> FALSE, center_freqs |-> center_freqs, sweep_buffer |-> ZeroBuffer(1),
          sweep_ptr |-> sweep_ptr, sweep_timer |-> IF checked THEN -1 ELSE sweep_timer,
          sweep_prev_linear |-> sweep_prev_linear, peak_env |-> peak_env, last_sweep_sig |-> last_sweep_sig,
          plan_ev |-> [PlanEv("reversed", s, e, rate) EXCEPT !.frac = f]]
    ELSE [ok |-> TRUE, center_freqs |-> PlanCenterFreqs(s, e, rate),
          sweep_buffer |-> ZeroBuffer(NumSteps(s, e, rate)),
          sweep_ptr |-> 0, sweep_timer |-> sweep_timer,
          sweep_prev_linear |-> <<>>, peak_env |-> <<>>, last_sweep_sig |-> Sig(s, f, e, rate),
          plan_ev |-> [PlanEv("ok", s, e, rate) EXCEPT
                          !.frac = f,
                          !.same = (last_sweep_sig = Sig(s, f, e, rate)),
                          !.realloc = NeedsRealloc(Len(sweep_buffer), NumSteps(s, e, rate)),
                          !.logged = (last_sweep_sig # Sig(s, f, e, rate))]]

\* the callbacks pending when the plan is replaced were queued before it
TagsAfter(ok, tags) == IF ok THEN AllStale(tags) ELSE tags

(* validate_sweep_inputs as the returnPressed slot of the two bound fields: *)
(* the operator has typed s and e                                          *)
(* with f below the MHz of the start                                       *)
validate_sweep_text(s, f, e) ==
    /\ mode \in SweepModes
    /\ manual_ops < MaxManual
    /\ manual_ops' = manual_ops + 1
    /\ sweep_start_edit' = s
    /\ sweep_start_frac' = f
    /\ sweep_end_edit' = e
    /\ LET v == Validated(s, f, e, samp_rate, running)
       IN /\ center_freqs' = v.center_freqs
          /\ sweep_buffer' = v.sweep_buffer
          /\ sweep_prev_linear' = v.sweep_prev_linear
          /\ peak_env' = v.peak_env
          /\ last_sweep_sig' = v.last_sweep_sig
          /\ sweep_ptr' = v.sweep_ptr
          /\ sweep_timer' = v.sweep_timer
          /\ plan_ev' = v.plan_ev
          /\ running' = (v.ok /\ running)
          /\ cap_tags' = TagsAfter(v.ok, cap_tags)
          /\ begin_tags' = TagsAfter(v.ok, begin_tags)
    /\ UNCHANGED <<mode, bins_ev, relief_ev, fft_size, worker, now, antenna_select, antenna_ev, sweep_active, sweep_busy, cap_retries,
                   step_freq_hz, tuned, last_fft, begin_timers, cap_timers, samp_rate,
                   step_fails, sweep_ev, cap_ev, sweep_avg_alpha, peak_enabled, time_vars, freq_vars>>
    /\ JamRestFrame

\* the operator types whole MHz
validate_sweep_inputs(s, e) == validate_sweep_text(s, 0, e)

(* update_sample_rate in a sweep mode: sr is the typed rate *)
update_sample_rate(sr) ==
    /\ mode \in SweepModes
    /\ manual_ops < MaxManual
    /\ manual_ops' = manual_ops + 1
    /\ LET rate == IF sr > DefaultSampRate THEN DefaultSampRate ELSE sr
           v    == Validated(sweep_start_edit, sweep_start_frac, sweep_end_edit, rate, running)
       IN /\ samp_rate' = rate
          /\ center_freqs' = v.center_freqs
          /\ sweep_buffer' = v.sweep_buffer
          /\ sweep_prev_linear' = v.sweep_prev_linear
          /\ peak_env' = v.peak_env
          /\ last_sweep_sig' = v.last_sweep_sig
          /\ plan_ev' = v.plan_ev
          /\ running' = (v.ok /\ running)
          /\ cap_tags' = TagsAfter(v.ok, cap_tags)
          /\ IF sweep_active
             THEN \* "Sweep active - applying sample rate live"
                  /\ sweep_ptr' = 0
                  /\ sweep_timer' = -1
                  /\ begin_timers' = ScheduleCapture(begin_timers, BeginDelayMs)
                  /\ begin_tags' = InsertTag(TagsAfter(v.ok, begin_tags), begin_timers,
                                             BeginDelayMs, FALSE)
             ELSE /\ sweep_ptr' = v.sweep_ptr
                  /\ sweep_timer' = v.sweep_timer
                  /\ begin_tags' = TagsAfter(v.ok, begin_tags)
                  /\ UNCHANGED begin_timers
    /\ UNCHANGED <<mode, bins_ev, relief_ev, fft_size, worker, now, antenna_select, antenna_ev, sweep_active, sweep_busy, cap_retries,
                   step_freq_hz, tuned, last_fft, cap_timers, sweep_start_edit,
                   sweep_end_edit, step_fails, sweep_ev, cap_ev, sweep_avg_alpha, peak_enabled,
                   sweep_start_frac, time_vars, freq_vars>>
    /\ JamRestFrame

(* toggle_stream, START branch, in a sweep mode: _validate_all_inputs runs *)
(* validate_sweep_inputs with the button checked; a failure blocks Start.  *)
StartSweep ==
    /\ mode \in SweepModes
    /\ ~running
    /\ LET v == Validated(sweep_start_edit, sweep_start_frac, sweep_end_edit, samp_rate, TRUE)
       IN /\ center_freqs' = v.center_freqs
          /\ sweep_buffer' = v.sweep_buffer
          /\ sweep_prev_linear' = v.sweep_prev_linear
          /\ peak_env' = v.peak_env
          /\ last_sweep_sig' = v.last_sweep_sig
          /\ plan_ev' = v.plan_ev
          /\ cap_tags' = TagsAfter(v.ok, cap_tags)
          /\ running' = v.ok
          /\ IF v.ok
             THEN /\ sweep_timer' = -1
                  /\ sweep_active' = TRUE
                  /\ sweep_ptr' = 0
                  /\ begin_timers' = ScheduleCapture(begin_timers, BeginDelayMs)
                  /\ begin_tags' = InsertTag(AllStale(begin_tags), begin_timers,
                                             BeginDelayMs, FALSE)
             ELSE /\ sweep_timer' = v.sweep_timer
                  /\ sweep_ptr' = v.sweep_ptr
                  /\ UNCHANGED <<sweep_active, begin_timers, begin_tags>>
    /\ UNCHANGED <<mode, bins_ev, relief_ev, fft_size, worker, sweep_busy, cap_retries, step_freq_hz, tuned,
                   last_fft, cap_timers, samp_rate, sweep_start_edit, sweep_end_edit,
                   step_fails, sweep_ev, cap_ev, sweep_avg_alpha, peak_enabled, sweep_start_frac>>
    /\ SweepFrame

(* toggle_stream, STOP branch, in a sweep mode *)
StopSweep ==
    /\ mode \in SweepModes
    /\ running
    /\ pauses < MaxPauses
    /\ pauses' = pauses + 1
    /\ running' = FALSE
    /\ sweep_timer' = -1
    /\ sweep_active' = FALSE
    /\ cap_tags' = AllStale(cap_tags)
    /\ begin_tags' = AllStale(begin_tags)
    /\ UNCHANGED <<mode, bins_ev, relief_ev, fft_size, worker, now, antenna_select, antenna_ev, sweep_busy, sweep_ptr, cap_retries,
                   step_freq_hz, tuned, center_freqs, last_fft, sweep_buffer,
                   begin_timers, cap_timers, samp_rate, sweep_start_edit, sweep_end_edit,
                   step_fails, sweep_ev, cap_ev, plan_ev, sweep_avg_alpha, peak_enabled,
                   sweep_prev_linear, peak_env, sweep_start_frac, last_sweep_sig, jam_vars,
                   freq_vars>>
    /\ TimeRestFrame

(* The event loop is idle: the clock moves to the next timer deadline *)
SweepDeadlines ==
    (IF sweep_timer >= 0 THEN {sweep_timer} ELSE {})
      \cup {begin_timers[i] : i \in 1..Len(begin_timers)}
      \cup {cap_timers[i] : i \in 1..Len(cap_timers)}

MinOf(S) == CHOOSE x \in S : \A y \in S : x <= y

SweepElapse ==
    /\ SweepDeadlines # {}
    /\ 0 \notin SweepDeadlines
    /\ LET d == MinOf(SweepDeadlines)
       IN /\ sweep_timer' = IF sweep_timer >= 0 THEN sweep_timer - d ELSE sweep_timer
          /\ begin_timers' = [i \in 1..Len(begin_timers) |-> begin_timers[i] - d]
          /\ cap_timers' = [i \in 1..Len(cap_timers) |-> cap_timers[i] - d]
    /\ UNCHANGED <<mode, bins_ev, relief_ev, fft_size, worker, running, sweep_active, sweep_busy, sweep_ptr, cap_retries,
                   step_freq_hz, tuned, center_freqs, last_fft, sweep_buffer,
                   step_fails, sweep_ev, cap_tags, begin_tags, cap_ev,
                   sweep_prev_linear, peak_env>>
    /\ PlanFrame
    /\ SweepFrame

----------------------------------------------------------------------------
(* Interference detector: _build_jamming_pipeline, update_antenna,         *)
(* check_jamming.  dB values are counted in 1/100 dB, occupancy in 1/10000,*)
(* the score in 1/100.                                                     *)

\* DelayToolsWindow.__init__: self.worker = None
NoWorker ==
    [pc |-> "none", num_cycles |-> 0, cycle |-> 0, stop |-> FALSE, cmds |-> <<>>,
     lat |-> 0, failed |-> FALSE, finished |-> 0, stats |-> "none", stopped_at |-> -1]

Ports == <<"A4", "A3", "A2", "A1", "B4", "B3", "B2", "B1">>
ValidAntennas == {"A1", "A2", "A3", "A4", "B1", "B2", "B3", "B4"}

\* self.ports.index(p), 0-based
PortIndex(p) == (CHOOSE i \in 1..Len(Ports) : Ports[i] = p) - 1

jam_occ_min == 5000
jam_occ_multipeak == 1500
jam_span_min == 8            \* in 1/1000
jam_sfm_min_db == 0 - 500
jam_median_db == 200
jam_band_db == 150
jam_hold_s == 400
jam_cooldown_s == 4000
sfm_offset == 80
DwellMs == 600
ReadyAfterSwitchMs == 800
ReadyAfterChangeMs == 1500
FreezeMs == 600
ValveIgnoreMs == 800
KnobIgnoreMs == 500
ValveLiftDb == 800
JamTickMs == 100
HalfLifeMs == 8000
StickMargin == 10
StickFloor == 110
DefaultFftSize == 1024
NoSfm == 99999

\* _rebuild_jam_mask: all bins but the centre +-max(2, fft_size // 256) and
\* two bins at each edge
MaskCount(n) == n - (2 * Max(2, n \div 256) + 1) - 4

Nmask == MaskCount(DefaultFftSize)

\* the least count without the floor of 6 bins
MinBinsNoFloor(n) == (6 * n) \div 1000

\* min_bins = max(6, int(0.006 * Nmask))
MinBins(n) == Max(6, (6 * n) \div 1000)

\* the guard evaluated for an FFT size and a count of bins over the
\* threshold; none yet on a new window
BinsEv(n, c) == [fft |-> n, over |-> c, enough |-> c >= MinBins(MaskCount(n))]

NoBinsEv == [fft |-> DefaultFftSize, over |-> 0, enough |-> FALSE]

RECURSIVE ISqrtIn(_, _, _)
ISqrtIn(n, lo, hi) ==
    IF lo >= hi THEN lo
    ELSE LET mid == (lo + hi + 1) \div 2
         IN IF mid * mid <= n THEN ISqrtIn(n, mid, hi) ELSE ISqrtIn(n, lo, mid - 1)

ISqrt(n) == ISqrtIn(n, 0, 65536)

Clamp(v, lo, hi) == Max(lo, Min(hi, v))

\* scale = (256.0 / max(64.0, Nmask)) ** 0.5
\* occ_req = max(0.10, min(0.45, self.jam_occ_min * scale))
OccReqBase(occ_min, n) ==
    Clamp((occ_min * 16 * 1000) \div ISqrt(Max(64, n) * 1000000), 1000, 4500)

\* if sfm_db >= -3.5: max(0.10, 0.85 * occ_req)  elif sfm_db >= -4.0: max(0.12, 0.92 * occ_req)
OccReqRelief(req, sfm_db) ==
    IF sfm_db >= 0 - 350 THEN Max(1000, (85 * req) \div 100)
    ELSE IF sfm_db >= 0 - 400 THEN Max(1200, (92 * req) \div 100)
    ELSE req

\* self._occ_req_ema = 0.6 * self._occ_req_ema + 0.4 * occ_req
OccReqEma(prev, req) == IF prev = -1 THEN req ELSE (6 * prev + 4 * req) \div 10

\* the requirement computed for the knob occ_min, the FFT size n, the
\* flatness sfm_db and the smoothed requirement prev of the tick before:
\* base  occ_req before the relief tier
\* req   occ_req after it
\* eff   occ_req_eff = np.clip(self._occ_req_ema, 0.10, 0.45)
ReliefEv(occ_min, n, sfm_db, prev) ==
    LET base == OccReqBase(occ_min, MaskCount(n))
        req  == OccReqRelief(base, sfm_db)
    IN [done |-> TRUE, occ_min |-> occ_min, fft |-> n, sfm |-> sfm_db, prev |-> prev,
        base |-> base, req |-> req, eff |-> Clamp(OccReqEma(prev, req), 1000, 4500)]

NoReliefEv ==
    [done |-> FALSE, occ_min |-> 0, fft |-> 0, sfm |-> 0, prev |-> -1,
     base |-> 0, req |-> 0, eff |-> 0]

\* 0.5 ** (k / 80) in 1/1000, k = 0..79
HalfPowTable ==
    << 1000, 991, 983, 974, 966, 958, 949, 941, 933, 925,
       917, 909, 901, 893, 886, 878, 871, 863, 856, 848,
       841, 834, 826, 819, 812, 805, 798, 791, 785, 778,
       771, 764, 758, 751, 745, 738, 732, 726, 719, 713,
       707, 701, 695, 689, 683, 677, 671, 665, 660, 654,
       648, 643, 637, 632, 626, 621, 616, 610, 605, 600,
       595, 589, 584, 579, 574, 569, 564, 560, 555, 550,
       545, 541, 536, 531, 527, 522, 518, 513, 509, 504 >>

RECURSIVE Halve(_, _)
Halve(v, n) == IF n = 0 THEN v ELSE Halve(v \div 2, n - 1)

\* decay = 0.5 ** max(0.0, age / 8.0), in 1/1000
Decay(age) ==
    LET a == Max(0, age) \div JamTickMs
        n == HalfLifeMs \div JamTickMs
    IN Halve(HalfPowTable[(a % n) + 1], Min(a \div n, 12))

\* need = max(1.10, last * decay + 0.10)
Need(last, age) == Max(StickFloor, (last * Decay(age)) \div 1000 + StickMargin)

\* the stickiness reduced to its floor: the score of the last switch forgotten
ImprovesFloorOnly(ema, last, age) == ema >= StickFloor

\* improves = (self._score_ema >= need)
Improves(ema, last, age) == ema >= Need(last, age)

\* score = 0.6*(occ/occ_req_eff) + 0.25*max(0, band/band_on) + 0.15*max(0, med/med_on)
Score(occ, req_eff, band_lift, med_lift) ==
    (60 * occ) \div Max(req_eff, 1)
      + Max(0, (25 * band_lift) \div jam_band_db)
      + Max(0, (15 * med_lift) \div jam_median_db)

\* self._score_ema = 0.8 * self._score_ema + 0.2 * score
ScoreEma(prev, score) == (8 * prev + 2 * score) \div 10

\* band_ok = band_lift >= (band_on if not band_state else band_off), off = max(0.5, on - 0.8)
\* one threshold, whatever the flag
HystSingle(lift, on, state) == lift >= on

HystOk(lift, on, state) == lift >= (IF ~state THEN on ELSE Max(50, on - 80))

\* held and dwell_ok and cooldown_ok, without the cooldown
FireAllowedNoCooldown(t, started, last_switch, cooldown_until) ==
    /\ (t - started) >= jam_hold_s
    /\ (t - last_switch) >= DwellMs

\* held and dwell_ok and cooldown_ok, without the hold
FireAllowedNoHold(t, started, last_switch, cooldown_until) ==
    /\ (t - last_switch) >= DwellMs
    /\ t >= cooldown_until

\* held and dwell_ok and cooldown_ok, the hold compared with > for >=
FireAllowedStrictHold(t, started, last_switch, cooldown_until) ==
    /\ (t - started) > jam_hold_s
    /\ (t - last_switch) >= DwellMs
    /\ t >= cooldown_until

\* held = (now - self.jam_started) >= self.jam_hold_s
\* dwell_ok = (now - jam_last_switch) >= 0.6;  cooldown_ok = now >= self.jam_cooldown_until
FireAllowed(t, started, last_switch, cooldown_until) ==
    /\ (t - started) >= jam_hold_s
    /\ (t - last_switch) >= DwellMs
    /\ t >= cooldown_until

\* if self.jam_started is None: self.jam_started = now
HoldStart(started, t) == IF started = -1 THEN t ELSE started

\* a hold that outlives a tick with the trigger or the stickiness false
HoldAfterMissSticky(started) == started

\* else: self.jam_started = None
HoldAfterMiss(started) == -1

\* self.current_port_index = (self.current_port_index + 1) % len(self.ports)
NextPortIndex(i) == (i + 1) % Len(Ports)

\* update_antenna leaving the rotation index as it was
SyncedIndexStale(val, idx) == idx

\* update_antenna, the index kept in step: self.ports.index(self.antenna_select)
SyncedIndex(val, idx) == IF val \in ValidAntennas THEN PortIndex(val) ELSE idx

(* What the probe shows on one tick, as the statistics check_jamming takes *)
(* from the masked spectrum and the baseline:                              *)
(*   ok   the vector is usable (right size, finite)                        *)
(*   cnt  bins with current - baseline >= jam_thresh_db                    *)
(*   run  longest contiguous run of such bins                              *)
(*   band band_lift, med med_lift, sfm sfm_db                              *)
(* "strong30" and "weak30" are 30 % of the masked bins 20 dB and 6.5 dB    *)
(* over the baseline; "step" is a gain step of 9 dB on every bin.          *)
Scenes ==
    { [name |-> "quiet",    ok |-> TRUE,  cnt |-> 0,   run |-> 0, band |-> 0,
       med |-> 0,   sfm |-> 0 - 250],
      [name |-> "strong30", ok |-> TRUE,  cnt |-> 304, run |-> 3, band |-> 1490,
       med |-> 0,   sfm |-> 0 - 890],
      [name |-> "weak30",   ok |-> TRUE,  cnt |-> 304, run |-> 3, band |-> 310,
       med |-> 0,   sfm |-> 0 - 380],
      [name |-> "step",     ok |-> TRUE,  cnt |-> Nmask, run |-> Nmask, band |-> 900,
       med |-> 900, sfm |-> 0 - 250],
      [name |-> "dead",     ok |-> FALSE, cnt |-> 0,   run |-> 0, band |-> 0,
       med |-> 0,   sfm |-> 0 - 250] }

\* the scenes count bins of the 1011 the default mask keeps: the same share
\* of a mask of n bins
InMask(c, n) == (c * n) \div Nmask

NoEv == [kind |-> "none", cond |-> FALSE, improves |-> FALSE, manual |-> FALSE,
         need |-> 0, span |-> 0, broke |-> FALSE, valve |-> -1, avg |-> FALSE,
         pre |-> FALSE, fresh |-> -1, gap |-> -1]

\* the averaging step runs on every tick
AveragedAlways(t, until) == TRUE

\* "if now >= self._baseline_freeze_until": the baseline takes 2 % of the
\* current spectrum
Averaged(t, until) == t >= until

\* the branches of check_jamming that come after the averaging step
PastAveraging == {"notready", "valve", "armed", "hold", "fire"}

\* the end of the 0.8 s that follow the last safety-valve tick, -1 once they
\* are over
ValveWindow(k) ==
    IF k = "valve" THEN now + ValveIgnoreMs
    ELSE IF now >= jam_ev.valve THEN -1 ELSE jam_ev.valve

\* what a tick did: the branch taken, the trigger and the stickiness it
\* computed, the required score, for a fire the span of the run of ticks
\* with trigger and stickiness that led to it, whether it ended a hold,
\* the window of the last safety-valve tick, whether the averaging step
\* touched the baseline, whether the pre-trigger was found, and the first
\* tick of the run of ticks with trigger and stickiness that no suppressed
\* tick interrupts (fresh, -1 = none), and for a fire the time since the
\* fire before it (gap, -1 = none)
Ev(k, c, i, nd, sp, br) ==
    [kind |-> k, cond |-> c, improves |-> i, manual |-> (port_set_by = "manual"),
     need |-> nd, span |-> sp, broke |-> br, valve |-> ValveWindow(k),
     avg |-> (k \in PastAveraging /\ Averaged(now, baseline_freeze_until)),
     pre |-> FALSE,
     fresh |-> IF k \in {"hold", "fire"} THEN HoldStart(jam_ev.fresh, now) ELSE -1,
     gap |-> IF k = "fire" /\ last_fire_at # -1 THEN now - last_fire_at ELSE -1]

Evaluated == {"armed", "hold", "fire"}

\* an early return of check_jamming: nothing but the named variables changes
JamQuiet(kind) ==
    /\ jam_ev' = Ev(kind, FALSE, FALSE, 0, 0, FALSE)
    /\ trig_streak' = 0
    /\ UNCHANGED <<antenna_select, antenna_ev, port_set_by, current_port_index, jam_started,
                   jam_cooldown_until, jam_ready_at, jam_last_switch,
                   baseline_freeze_until, score_ema, last_score_at_switch,
                   jam_band_state, jam_med_state, sfm_ref, occ_req_ema, last_fire_at,
                   fire_count, true_since>>

(* check_jamming: the detection timer's timeout slot.                      *)
(*   s: what the probe shows; s.ok: it delivered a usable vector           *)
\* what update_antenna leaves in jamming mode: the baseline cleared and
\* the detector ready 1.5 s later
AfterSwitch(t) == [baseline |-> "None", ready |-> t + ReadyAfterChangeMs]

\* the re-arming written before the switch, which then overwrites it
RearmedFirst(sw, t) == sw

\* the assignments of check_jamming that follow the call of update_antenna:
\* jam_ready_at = now + 0.8, jam_baseline_db = power_db.copy()
Rearmed(sw, t) == [sw EXCEPT !.baseline = "copy", !.ready = t + ReadyAfterSwitchMs]

check_jamming(s) ==
    /\ jam_timer = 0
    /\ jam_timer' = JamTickMs
    /\ IF mode # "jamming" \/ ~running \/ ~s.ok
       THEN JamQuiet("skipped") /\ UNCHANGED <<jam_baseline_db, jam_ignore_until>>
       ELSE IF now < jam_ignore_until
       THEN JamQuiet("ignored") /\ UNCHANGED <<jam_baseline_db, jam_ignore_until>>
       ELSE IF jam_baseline_db = "None"
       THEN JamQuiet("baseline") /\ jam_baseline_db' = "copy"
                                 /\ UNCHANGED jam_ignore_until
       ELSE IF now < jam_ready_at
       THEN /\ JamQuiet("notready")
            /\ jam_baseline_db' = IF Averaged(now, baseline_freeze_until)
                                  THEN "ema" ELSE jam_baseline_db
            /\ UNCHANGED jam_ignore_until
       ELSE IF s.med > ValveLiftDb
       THEN /\ JamQuiet("valve")
            /\ jam_baseline_db' = "copy"
            /\ jam_ignore_until' = now + ValveIgnoreMs
       ELSE
         LET n        == MaskCount(fft_size)
             cnt      == InMask(s.cnt, n)
             run      == InMask(s.run, n)
             ref      == IF sfm_ref = NoSfm THEN s.sfm ELSE (95 * sfm_ref + 5 * s.sfm) \div 100
             sfm_gate == Max(jam_sfm_min_db, ref + sfm_offset)
             occ      == (cnt * 10000) \div Max(1, n)
             req      == OccReqRelief(OccReqBase(jam_occ_min, n), s.sfm)
             req_ema  == OccReqEma(occ_req_ema, req)
             req_eff  == Clamp(req_ema, 1000, 4500)
             band_ok  == HystOk(s.band, jam_band_db, jam_band_state)
             med_ok   == HystOk(s.med, jam_median_db, jam_med_state)
             enough   == cnt >= MinBins(n)
             span_ok8 == run * 10000 >= 8 * jam_span_min * n
             pre      == /\ 10 * occ >= 8 * req_eff
                         /\ \/ 10 * s.band >= 8 * jam_band_db
                            \/ 10 * s.med >= 8 * jam_median_db
                            \/ span_ok8
             wideband == enough /\ occ >= req_eff /\ (s.sfm >= sfm_gate \/ band_ok)
             multipk  == enough /\ occ >= jam_occ_multipeak
                                /\ run * 1000 >= jam_span_min * n
             cond     == wideband \/ multipk \/ med_ok
             ema      == ScoreEma(score_ema, Score(occ, req_eff, s.band, s.med))
             need     == Need(last_score_at_switch, now - jam_last_switch)
             improves == Improves(ema, last_score_at_switch, now - jam_last_switch)
             started  == HoldStart(jam_started, now)
             since    == HoldStart(true_since, now)
             frozen   == IF pre /\ now >= baseline_freeze_until
                         THEN now + FreezeMs ELSE baseline_freeze_until
             base     == IF Averaged(now, baseline_freeze_until)
                         THEN "ema" ELSE jam_baseline_db
         IN /\ jam_band_state' = band_ok
            /\ jam_med_state' = med_ok
            /\ occ_req_ema' = req_ema
            /\ score_ema' = ema
            /\ UNCHANGED jam_ignore_until
            /\ IF cond /\ improves
               THEN IF FireAllowed(now, started, jam_last_switch, jam_cooldown_until)
                    THEN \* rotate port, update_antenna(), reset / re-arm
                         /\ current_port_index' =
                               SyncedIndex(Ports[NextPortIndex(current_port_index) + 1],
                                           NextPortIndex(current_port_index))
                         /\ antenna_select' = Ports[NextPortIndex(current_port_index) + 1]
                         /\ antenna_ev' = AntennaSet(antenna_select')
                         /\ jam_last_switch' = now
                         /\ jam_cooldown_until' = now + jam_cooldown_s
                         /\ jam_started' = -1
                         /\ jam_ready_at' = Rearmed(AfterSwitch(now), now).ready
                         /\ baseline_freeze_until' = now + FreezeMs
                         /\ jam_baseline_db' = Rearmed(AfterSwitch(now), now).baseline
                         /\ sfm_ref' = s.sfm
                         /\ last_score_at_switch' = ema
                         /\ last_fire_at' = now
                         /\ fire_count' = fire_count + 1
                         /\ trig_streak' = trig_streak + 1
                         /\ true_since' = -1
                         /\ jam_ev' = [Ev("fire", cond, improves, need, now - since, FALSE)
                                       EXCEPT !.pre = pre]
                         /\ port_set_by' = "detector"
                    ELSE /\ jam_started' = started
                         /\ baseline_freeze_until' = frozen
                         /\ jam_baseline_db' = base
                         /\ sfm_ref' = ref
                         /\ trig_streak' = trig_streak + 1
                         /\ true_since' = since
                         /\ jam_ev' = [Ev("hold", cond, improves, need, 0, FALSE)
                                       EXCEPT !.pre = pre]
                         /\ UNCHANGED <<antenna_select, antenna_ev, port_set_by, current_port_index,
                                        jam_last_switch, jam_cooldown_until, jam_ready_at,
                                        last_score_at_switch, last_fire_at, fire_count>>
               ELSE /\ jam_started' = HoldAfterMiss(jam_started)
                    /\ baseline_freeze_until' = frozen
                    /\ jam_baseline_db' = base
                    /\ sfm_ref' = ref
                    /\ trig_streak' = 0
                    /\ true_since' = -1
                    /\ jam_ev' = [Ev("armed", cond, improves, need, 0, jam_started # -1)
                                  EXCEPT !.pre = pre]
                    /\ UNCHANGED <<antenna_select, antenna_ev, port_set_by, current_port_index,
                                   jam_last_switch, jam_cooldown_until, jam_ready_at,
                                   last_score_at_switch, last_fire_at, fire_count>>
    /\ UNCHANGED <<mode, bins_ev, relief_ev, fft_size, worker, running, now, manual_ops, scene, scene_changes, sweep_vars, freq_vars, time_vars>>

\* every text passes for an identifier
AnyText(val) == TRUE

\* val in ['A1','A2','A3','A4','B1','B2','B3','B4']
IsValid(val) == val \in ValidAntennas

(* update_antenna from the antenna field (returnPressed), jamming mode *)
ManualAntenna(text) ==
    /\ mode = "jamming"
    /\ manual_ops < MaxManual
    /\ manual_ops' = manual_ops + 1
    /\ LET val == StripUpper(text)
       IN IF IsValid(val)
          THEN /\ antenna_select' = val
               /\ antenna_ev' = [AntennaSet(val) EXCEPT !.text = text, !.typed = @ + 1]
               /\ jam_baseline_db' = "None"
               /\ jam_ready_at' = now + ReadyAfterChangeMs
               /\ current_port_index' = SyncedIndex(val, current_port_index)
               /\ jam_last_switch' = now
               /\ port_set_by' = "manual"
          ELSE /\ antenna_ev' = [AntennaRejected(text) EXCEPT !.typed = @ + 1]
               /\ UNCHANGED <<antenna_select, jam_baseline_db, jam_ready_at,
                              current_port_index, jam_last_switch, port_set_by>>
    /\ UNCHANGED <<mode, bins_ev, relief_ev, fft_size, worker, running, now, sweep_vars, freq_vars, time_vars, jam_timer, jam_started,
                   jam_cooldown_until, jam_ignore_until, baseline_freeze_until,
                   score_ema, last_score_at_switch, jam_band_state, jam_med_state,
                   sfm_ref, occ_req_ema, jam_ev, last_fire_at, fire_count, trig_streak, true_since,
                   scene, scene_changes>>

(* _apply_jam_knobs with well-formed, unchanged knob texts *)
ApplyKnobs ==
    /\ mode = "jamming"
    /\ manual_ops < MaxManual
    /\ manual_ops' = manual_ops + 1
    /\ jam_ignore_until' = now + KnobIgnoreMs
    /\ UNCHANGED <<mode, bins_ev, relief_ev, fft_size, worker, running, now, antenna_select, antenna_ev, sweep_vars, freq_vars, time_vars, jam_timer,
                   current_port_index, jam_baseline_db, jam_started, jam_cooldown_until,
                   jam_ready_at, jam_last_switch, baseline_freeze_until, score_ema,
                   last_score_at_switch, jam_band_state, jam_med_state, sfm_ref,
                   occ_req_ema, jam_ev, last_fire_at, fire_count, trig_streak, true_since,
                   port_set_by, scene, scene_changes>>

(* toggle_stream, START branch, jamming mode *)
StartJam ==
    /\ mode = "jamming"
    /\ ~running
    /\ running' = TRUE
    /\ jam_baseline_db' = "None"
    /\ jam_started' = -1
    /\ jam_cooldown_until' = 0
    /\ jam_ready_at' = now + ReadyAfterChangeMs
    /\ jam_last_switch' = now
    /\ score_ema' = 0
    /\ jam_timer' = JamTickMs
    /\ UNCHANGED <<mode, bins_ev, relief_ev, fft_size, worker, now, antenna_select, antenna_ev, sweep_vars, freq_vars, time_vars, current_port_index,
                   jam_ignore_until, baseline_freeze_until, last_score_at_switch,
                   jam_band_state, jam_med_state, sfm_ref, occ_req_ema, jam_ev,
                   last_fire_at, fire_count, trig_streak, true_since, manual_ops, scene,
              scene_changes, port_set_by>>

(* toggle_stream, STOP branch, jamming mode *)
StopJam ==
    /\ mode = "jamming"
    /\ running
    /\ pauses < MaxPauses
    /\ pauses' = pauses + 1
    /\ running' = FALSE
    /\ jam_timer' = -1
    /\ UNCHANGED <<mode, bins_ev, relief_ev, fft_size, worker, now, antenna_select, antenna_ev, sweep_vars, freq_vars, manual_ops, scene,
                   scene_changes, current_port_index, jam_baseline_db, jam_started,
                   jam_cooldown_until, jam_ready_at, jam_last_switch, jam_ignore_until,
                   baseline_freeze_until, score_ema, last_score_at_switch,
                   jam_band_state, jam_med_state, sfm_ref, occ_req_ema, jam_ev,
                   last_fire_at, fire_count, trig_streak, true_since, port_set_by>>
    /\ TimeRestFrame

(* The event loop is idle until the detection timer is due, in a run that *)
(* is watched until limit                                                  *)
JamElapseWithin(limit) ==
    /\ jam_timer > 0
    /\ now + jam_timer <= limit
    /\ now' = now + jam_timer
    /\ jam_timer' = 0
    /\ UNCHANGED <<mode, bins_ev, relief_ev, fft_size, worker, running, antenna_select, antenna_ev, sweep_vars, freq_vars, time_vars, current_port_index,
                   jam_baseline_db, jam_started, jam_cooldown_until, jam_ready_at,
                   jam_last_switch, jam_ignore_until, baseline_freeze_until, score_ema,
                   last_score_at_switch, jam_band_state, jam_med_state, sfm_ref,
                   occ_req_ema, jam_ev, last_fire_at, fire_count, trig_streak, true_since,
                   manual_ops, port_set_by, scene, scene_changes>>

JamElapse == JamElapseWithin(MaxNow)

(* _build_jamming_pipeline: the detector state of a new window *)
JamConstructed ==
    /\ jam_timer = -1
    /\ current_port_index = SyncedIndex(antenna_select, 0)
    /\ jam_baseline_db = "None"
    /\ jam_started = -1
    /\ jam_cooldown_until = 0
    /\ jam_ready_at = now + ReadyAfterChangeMs
    /\ jam_last_switch = 0
    /\ jam_ignore_until = 0
    /\ baseline_freeze_until = 0
    /\ score_ema = 0
    /\ last_score_at_switch = 0
    /\ jam_band_state = FALSE
    /\ jam_med_state = FALSE
    /\ sfm_ref = NoSfm
    /\ occ_req_ema = -1
    /\ jam_ev = NoEv
    /\ last_fire_at = -1
    /\ fire_count = 0
    /\ trig_streak = 0
    /\ true_since = -1
    /\ manual_ops = 0
    /\ port_set_by = "init"
    /\ scene_changes = 0

\* a window of another mode has no detector
JamIdle == JamConstructed /\ scene = CHOOSE s \in Scenes : s.name = "quiet"

(* The environment: the spectrum in front of the probe changes *)
SceneChange(s) ==
    /\ mode = "jamming"
    /\ jam_timer = 0
    /\ scene_changes < MaxSceneChanges
    /\ s # scene
    /\ scene' = s
    /\ scene_changes' = scene_changes + 1
    /\ UNCHANGED <<mode, bins_ev, relief_ev, fft_size, worker, running, now, antenna_select, antenna_ev, sweep_vars, freq_vars, time_vars, jam_timer,
                   current_port_index, jam_baseline_db, jam_started, jam_cooldown_until,
                   jam_ready_at, jam_last_switch, jam_ignore_until, baseline_freeze_until,
                   score_ema, last_score_at_switch, jam_band_state, jam_med_state,
                   sfm_ref, occ_req_ema, jam_ev, last_fire_at, fire_count, trig_streak, true_since,
                   manual_ops, port_set_by>>

----------------------------------------------------------------------------
(* Time policy: toggle_stream (mode "time") and perform_time_switch.       *)
(* Durations and time.time() are counted in whole ms, so that              *)
(* int(remaining * 1000) is the remaining time itself.                     *)

TolMs == 1     \* the 1e-3 s of "elapsed >= dur - 1e-3"

Rows == 0..(MaxRows - 1)

NoElapsed == [i \in Rows |-> 0]

\* old_ports / new_ports = [p for p, _ in cfg]
PortsOf(cfg) == [k \in 1..Len(cfg) |-> cfg[k].port]

\* the timer armed for the whole duration of the row
RemainingFull(dur, elapsed) == dur

\* remaining = max(0.0, dur - elapsed)
Remaining(dur, elapsed) == Max(0, dur - elapsed)

\* new_cfg: the rows with a port and a duration > 0 (a blank or unparsable
\* duration is kept as 0)
RECURSIVE ValidRows(_)
ValidRows(rows) ==
    IF rows = <<>> THEN <<>>
    ELSE IF Head(rows).dur > 0 THEN <<Head(rows)>> \o ValidRows(Tail(rows))
    ELSE ValidRows(Tail(rows))

\* the "for _ in range(num): ... else: ..." search for the row to run:
\* a row with no time left is reset and passed over; if every row was
\* passed over, all counters are reset and the row reached runs in full
RECURSIVE FindSlot(_, _, _, _)
FindSlot(cfg, idx, el, n) ==
    IF n = 0
    THEN [idx |-> idx, el |-> NoElapsed, remaining |-> cfg[idx + 1].dur]
    ELSE LET remaining == Remaining(cfg[idx + 1].dur, el[idx])
         IN IF remaining > 0
            THEN [idx |-> idx, el |-> el, remaining |-> remaining]
            ELSE FindSlot(cfg, (idx + 1) % Len(cfg), [el EXCEPT ![idx] = 0], n - 1)

\* Stop forgetting the time the stream ran since the last Start
PausedElapsedLost(prev, t, start) == prev

\* self.per_port_elapsed[idx] = self.per_port_elapsed.get(idx, 0) + (time.time() - self.timer_start_time)
PausedElapsed(prev, t, start) == prev + (t - start)

\* the slot of row i is over: what it ran, and how often it was paused
SlotDone(i) == [kind |-> "done", idx |-> i, ran |-> ran[i], pauses |-> pauses]

NoSlot == [kind |-> "none", idx |-> 0, ran |-> 0, pauses |-> 0]

(* toggle_stream, START branch, time mode: the rows are read again *)
StartTime ==
    /\ mode = "time"
    /\ ~running
    /\ LET new_cfg == ValidRows(time_inputs)
           changed == PortsOf(time_config) # PortsOf(new_cfg)
           el0     == IF changed THEN NoElapsed ELSE per_port_elapsed
           idx0    == IF changed THEN 0 ELSE last_time_index
           r       == FindSlot(new_cfg, idx0, el0, Len(new_cfg))
           passed  == ~changed /\ new_cfg[idx0 + 1].dur - el0[idx0] <= 0
       IN IF new_cfg = <<>>
          THEN \* "No valid port/duration entries": the toggle returns to Start
               /\ time_timer' = -1
               /\ UNCHANGED <<running, time_config, last_time_index, per_port_elapsed,
                              timer_start_time, antenna_select, antenna_ev, time_ev, ran>>
          ELSE /\ time_config' = new_cfg
               /\ last_time_index' = r.idx
               /\ per_port_elapsed' = r.el
               /\ timer_start_time' = now
               /\ antenna_select' = new_cfg[r.idx + 1].port
               /\ antenna_ev' = AntennaSet(antenna_select')
               /\ time_timer' = r.remaining
               /\ time_ev' = IF passed THEN SlotDone(idx0) ELSE time_ev
               /\ ran' = IF changed THEN NoElapsed
                         ELSE IF passed THEN [ran EXCEPT ![idx0] = 0] ELSE ran
               /\ running' = TRUE
    /\ UNCHANGED <<mode, bins_ev, relief_ev, fft_size, worker, now, sweep_vars, freq_vars, jam_vars, time_inputs, pauses>>

(* toggle_stream, STOP branch, time mode *)
StopTime ==
    /\ mode = "time"
    /\ running
    /\ pauses < MaxPauses
    /\ pauses' = pauses + 1
    /\ per_port_elapsed' =
          IF timer_start_time # -1
          THEN [per_port_elapsed EXCEPT ![last_time_index] =
                   PausedElapsed(per_port_elapsed[last_time_index], now, timer_start_time)]
          ELSE per_port_elapsed
    /\ time_timer' = -1
    /\ timer_start_time' = -1
    /\ running' = FALSE
    /\ UNCHANGED <<mode, bins_ev, relief_ev, fft_size, worker, now, antenna_select, antenna_ev, sweep_vars, freq_vars, jam_vars, time_inputs,
                   time_config, last_time_index, ran, time_ev>>

(* perform_time_switch: the timeout slot of the time policy's timer *)
perform_time_switch ==
    /\ time_timer = 0
    /\ time_config # <<>>
    /\ LET i    == last_time_index
           dur  == time_config[i + 1].dur
           sum  == per_port_elapsed[i] + (now - timer_start_time)
           el1  == IF timer_start_time = -1 THEN per_port_elapsed
                   ELSE [per_port_elapsed EXCEPT ![i] = IF sum >= dur - TolMs THEN 0 ELSE sum]
           num  == Len(time_config)
           r    == FindSlot(time_config, (i + 1) % num, el1, num)
       IN /\ last_time_index' = r.idx
          /\ per_port_elapsed' = r.el
          /\ timer_start_time' = now
          /\ antenna_select' = time_config[r.idx + 1].port
          /\ antenna_ev' = AntennaSet(antenna_select')
          /\ time_timer' = r.remaining
          /\ time_ev' = SlotDone(i)
          /\ ran' = [ran EXCEPT ![i] = 0]
    /\ UNCHANGED <<mode, bins_ev, relief_ev, fft_size, worker, running, now, sweep_vars, freq_vars, jam_vars, time_inputs, time_config,
                   pauses>>

(* One ms passes: the stream runs on the active row, or the window is paused *)
TimeElapse ==
    /\ mode = "time"
    /\ now < MaxTimeNow
    /\ now' = now + 1
    /\ IF running
       THEN /\ time_timer > 0
            /\ time_timer' = time_timer - 1
            /\ ran' = [ran EXCEPT ![last_time_index] = @ + 1]
       ELSE UNCHANGED <<time_timer, ran>>
    /\ UNCHANGED <<mode, bins_ev, relief_ev, fft_size, worker, running, antenna_select, antenna_ev, sweep_vars, freq_vars, jam_vars, time_inputs,
                   time_config, last_time_index, per_port_elapsed, timer_start_time,
                   pauses, time_ev>>

\* refresh_time_config, called by the rows' signals while the stream runs
\* (safe_refresh, remove_time_row): the list is rebuilt from the rows; with
\* no valid row the timer and the stream are stopped
RefreshedRunning(rows) ==
    IF ValidRows(rows) = <<>> THEN FALSE ELSE running

RefreshedTimer(rows) ==
    IF ValidRows(rows) = <<>> THEN -1 ELSE time_timer

RefreshedIndex(rows) ==
    IF ValidRows(rows) # <<>> /\ last_time_index >= Len(ValidRows(rows))
    THEN 0 ELSE last_time_index

\* what one operator action can make of the rows: a duration typed into a
\* row (0: blank or not a number), another port chosen in a row, a row
\* added by add_time_row (first port of the combo box, blank duration), the
\* last row removed by remove_time_row
RowPorts == {Ports[1], Ports[2]}

RowEdits(rows) ==
    { [rows EXCEPT ![k].dur = d] : k \in 1..Len(rows), d \in 0..MaxDur }
      \cup { [rows EXCEPT ![k].port = p] : k \in 1..Len(rows), p \in RowPorts }
      \cup (IF Len(rows) < MaxRows THEN {Append(rows, [port |-> "A1", dur |-> 0])} ELSE {})
      \cup (IF rows # <<>> THEN {SubSeq(rows, 1, Len(rows) - 1)} ELSE {})

(* The operator changes the rows of the time policy.  While the stream is  *)
(* stopped only the widgets change; while it runs, editing a row or        *)
(* removing one calls refresh_time_config (adding a row does not).         *)
EditTimeRows(rows) ==
    /\ mode = "time"
    /\ manual_ops < MaxManual
    /\ rows \in RowEdits(time_inputs)
    /\ rows # time_inputs
    /\ manual_ops' = manual_ops + 1
    /\ time_inputs' = rows
    /\ IF running /\ Len(rows) <= Len(time_inputs)
       THEN /\ time_config' = ValidRows(rows)
            /\ running' = RefreshedRunning(rows)
            /\ time_timer' = RefreshedTimer(rows)
            /\ last_time_index' = RefreshedIndex(rows)
       ELSE UNCHANGED <<time_config, running, time_timer, last_time_index>>
    /\ UNCHANGED <<mode, bins_ev, relief_ev, fft_size, worker, now, antenna_select, antenna_ev, sweep_vars, freq_vars, per_port_elapsed,
                   timer_start_time, ran, pauses, time_ev, jam_timer,
                   current_port_index, jam_baseline_db, jam_started, jam_cooldown_until,
                   jam_ready_at, jam_last_switch, jam_ignore_until, baseline_freeze_until,
                   score_ema, last_score_at_switch, jam_band_state, jam_med_state,
                   sfm_ref, occ_req_ema, jam_ev, last_fire_at, fire_count, trig_streak,
                   true_since, scene, scene_changes, port_set_by>>

\* _build_time_mode_ui and __init__: the time policy of a new window
TimeConstructed ==
    /\ time_config = <<>>
    /\ last_time_index = 0
    /\ per_port_elapsed = NoElapsed
    /\ timer_start_time = -1
    /\ time_timer = -1
    /\ ran = NoElapsed
    /\ pauses = 0
    /\ time_ev = NoSlot

\* a window of another mode: no rows are typed
TimeIdle == TimeConstructed /\ time_inputs = <<>>

----------------------------------------------------------------------------
(* Frequency policy: validate_port_ranges, refresh_freq_config,            *)
(* auto_switch_port_if_needed, update_center_freq.  Frequencies are        *)
(* counted in 0.1 MHz; the texts of the fields are numbers or "nan".       *)

FreqMax == 40000       \* 4000 MHz, 4e9 Hz

\* default_ranges of _build_frequency_mode_ui, in the order of the ports
DefaultRanges ==
    << [low |-> 0,     high |-> 1000],  [low |-> 1010,  high |-> 2000],
       [low |-> 2010,  high |-> 3000],  [low |-> 3010,  high |-> 4000],
       [low |-> 4010,  high |-> 7000],  [low |-> 7010,  high |-> 10000],
       [low |-> 10010, high |-> 20000], [low |-> 20010, high |-> 40000] >>

\* Python's order of the port names (the last component of the sorted tuples)
PortRank(k) == CHOOSE r \in 1..8 :
    <<"A1", "A2", "A3", "A4", "B1", "B2", "B3", "B4">>[r] = Ports[k]

\* float("nan"): the one text of a bound that float() parses to no number
NaN == 0 - 7777

\* the comparisons of two floats: every comparison with nan is false
FLess(a, b) == a # NaN /\ b # NaN /\ a < b
FEq(a, b) == a # NaN /\ b # NaN /\ a = b
FAtLeast(a, b) == a # NaN /\ b # NaN /\ a >= b
FAbove(a, b) == a # NaN /\ b # NaN /\ a > b

\* (low, high, port) < (low, high, port) as Python compares tuples: the
\* first components that are not equal decide
RangeLess(a, b) ==
    IF ~FEq(a.low, b.low) THEN FLess(a.low, b.low)
    ELSE IF ~FEq(a.high, b.high) THEN FLess(a.high, b.high)
    ELSE PortRank(a.k) < PortRank(b.k)

\* list.sort() of a list of fewer than 64 items: the run the list starts
\* with is found (and reversed when it descends), the other items are put
\* in place by binary insertion
RECURSIVE RunLen(_, _, _)
RunLen(s, n, desc) ==
    IF n >= Len(s) THEN n
    ELSE IF RangeLess(s[n + 1], s[n]) = desc THEN RunLen(s, n + 1, desc)
    ELSE n

RECURSIVE BinarySearch(_, _, _, _)
BinarySearch(s, pivot, l, r) ==
    IF l >= r THEN l
    ELSE LET p == l + ((r - l) \div 2)
         IN IF RangeLess(pivot, s[p]) THEN BinarySearch(s, pivot, l, p)
            ELSE BinarySearch(s, pivot, p + 1, r)

RECURSIVE BinarySort(_, _)
BinarySort(s, start) ==
    IF start > Len(s) THEN s
    ELSE LET l == BinarySearch(s, s[start], 1, start)
         IN BinarySort([i \in 1..Len(s) |->
                           IF i < l THEN s[i]
                           ELSE IF i = l THEN s[start]
                           ELSE IF i <= start THEN s[i - 1]
                           ELSE s[i]], start + 1)

ListSort(s) ==
    IF Len(s) < 2 THEN s
    ELSE LET desc == RangeLess(s[2], s[1])
             n    == RunLen(s, 2, desc)
             run  == IF desc
                     THEN [i \in 1..Len(s) |-> IF i <= n THEN s[n + 1 - i] ELSE s[i]]
                     ELSE s
         IN BinarySort(run, n + 1)

\* ranges.sort()
SortRanges(t, n) ==
    ListSort([k \in 1..n |-> [low |-> t[k].low, high |-> t[k].high, k |-> k]])

\* two neighbours of the sorted list are accepted when they only touch
TouchesStrict(current_high, next_low) == FAbove(current_high, next_low)

\* if current_high >= next_low: "Overlapping or touching ranges"
Touches(current_high, next_low) == FAtLeast(current_high, next_low)

\* validate_port_ranges (and the same test in refresh_freq_config)
validate_port_ranges(t) ==
    IF \E k \in 1..Len(t) : FAtLeast(t[k].low, t[k].high) \/ FAbove(t[k].high, FreqMax)
    THEN FALSE
    ELSE LET ranges == SortRanges(t, Len(t))
         IN \A i \in 1..(Len(ranges) - 1) : ~Touches(ranges[i].high, ranges[i + 1].low)

\* the test of the lookup with the upper end of the range left out
InRangeOpen(low, f, high) == FAtLeast(f, low) /\ FLess(f, high)

\* if low <= current_mhz <= high
InRange(low, f, high) == FAtLeast(f, low) /\ FAtLeast(high, f)

\* the loop of auto_switch_port_if_needed over port_inputs.items(): the
\* index of the first port whose range holds f, 0 for selected_port = None
RECURSIVE ScanPorts(_, _, _)
ScanPorts(t, f, k) ==
    IF k > Len(t) THEN 0
    ELSE IF InRange(t[k].low, f, t[k].high) THEN k
    ELSE ScanPorts(t, f, k + 1)

\* tuned: what the receiver is tuned to (self.src.set_center_freq), which the
\* constructor sets to the centre frequency
NoFreqEv == [kind |-> "none", valid |-> TRUE, sel |-> 0, switched |-> FALSE, tuned |-> 1000]

FreqEv(k, v, sl, sw) ==
    [kind |-> k, valid |-> v, sel |-> sl, switched |-> sw, tuned |-> freq_ev.tuned]

\* the frequencies the operator types into the centre-frequency field
FreqTexts == {500, 1000, 1005, 1010, 1500, 40001}

\* the bounds the operator types into the range fields of the first two ports
RangeTexts == {0, 1000, 1001, 2000, 40001}

EditedPorts == {1, 2}

(* update_center_freq in frequency mode (returnPressed of the field) *)
update_center_freq(text) ==
    /\ mode = "frequency"
    /\ LET freq == IF text > FreqMax THEN FreqMax ELSE text
       IN IF freq = center_freq
          THEN /\ freq_ev' = FreqEv("same", TRUE, 0, FALSE)
               /\ UNCHANGED <<center_freq, running, antenna_select, antenna_ev>>
          ELSE /\ center_freq' = freq
               /\ IF ~validate_port_ranges(port_inputs)
                  THEN \* "[ABORT]": the stream is stopped through toggle_stream
                       /\ running' = FALSE
                       /\ freq_ev' = FreqEv("freq", FALSE, 0, FALSE)
                       /\ UNCHANGED <<antenna_select, antenna_ev>>
                  ELSE LET sel == ScanPorts(port_inputs, freq, 1)
                           sw  == sel # 0 /\ Ports[sel] # antenna_select
                       IN /\ antenna_select' = IF sw THEN Ports[sel] ELSE antenna_select
                          /\ antenna_ev' = IF sw THEN AntennaSet(Ports[sel]) ELSE antenna_ev
                          /\ freq_ev' = [FreqEv("freq", TRUE, sel, sw) EXCEPT !.tuned = freq]
                          /\ UNCHANGED running
    /\ UNCHANGED <<mode, bins_ev, relief_ev, fft_size, worker, now, port_inputs, sweep_vars, jam_vars, time_vars>>

(* refresh_freq_config: editingFinished of the range field of port k, in a *)
(* run of at most limit operator actions                                   *)
RangeEdit(k, low, high, limit) ==
    /\ mode = "frequency"
    /\ manual_ops < limit
    /\ manual_ops' = manual_ops + 1
    /\ port_inputs' = [port_inputs EXCEPT ![k] = [low |-> low, high |-> high]]
    /\ freq_ev' = FreqEv("refresh", validate_port_ranges(port_inputs'), 0, FALSE)
    /\ running' = IF validate_port_ranges(port_inputs') THEN running ELSE FALSE
    /\ UNCHANGED <<mode, bins_ev, relief_ev, fft_size, worker, now, antenna_select, antenna_ev, center_freq, sweep_vars, time_vars,
                   jam_timer, current_port_index, jam_baseline_db, jam_started,
                   jam_cooldown_until, jam_ready_at, jam_last_switch, jam_ignore_until,
                   baseline_freeze_until, score_ema, last_score_at_switch,
                   jam_band_state, jam_med_state, sfm_ref, occ_req_ema, jam_ev,
                   last_fire_at, fire_count, trig_streak, true_since, scene,
                   scene_changes, port_set_by>>

refresh_freq_config(k, low, high) == RangeEdit(k, low, high, MaxManual)

(* toggle_stream, START branch, frequency mode: the ranges must be valid   *)
(* and one of them must hold the centre frequency; update_center_freq then *)
(* finds the frequency unchanged                                           *)
StartFreq ==
    /\ mode = "frequency"
    /\ ~running
    /\ LET valid   == validate_port_ranges(port_inputs)
           matched == \E k \in 1..Len(port_inputs) :
                         InRange(port_inputs[k].low, center_freq, port_inputs[k].high)
       IN /\ running' = (valid /\ matched)
          /\ freq_ev' = FreqEv("start", valid, 0, FALSE)
    /\ UNCHANGED <<mode, bins_ev, relief_ev, fft_size, worker, now, antenna_select, antenna_ev, port_inputs, center_freq,
                   sweep_vars, jam_vars, time_vars>>

(* toggle_stream, STOP branch, frequency mode *)
StopFreq ==
    /\ mode = "frequency"
    /\ running
    /\ running' = FALSE
    /\ freq_ev' = FreqEv("stop", TRUE, 0, FALSE)
    /\ UNCHANGED <<mode, bins_ev, relief_ev, fft_size, worker, now, antenna_select, antenna_ev, port_inputs, center_freq,
                   sweep_vars, jam_vars, time_vars>>

\* _build_frequency_mode_ui and __init__
FreqConstructed ==
    /\ port_inputs = DefaultRanges
    /\ center_freq = 1000
    /\ freq_ev = NoFreqEv

\* a window of another mode
FreqIdle == FreqConstructed

\* __init__: the sweep state of a new window
SweepConstructed ==
    /\ sweep_active = FALSE
    /\ sweep_busy = FALSE
    /\ sweep_ptr = 0
    /\ cap_retries = 0
    /\ step_freq_hz = None
    /\ tuned = DefaultCenterFreq
    /\ last_fft = None
    /\ sweep_timer = -1
    /\ begin_timers = <<>>
    /\ cap_timers = <<>>
    /\ samp_rate = DefaultSampRate
    /\ sweep_start_edit = DefaultSweepStart
    /\ step_fails = 0
    /\ sweep_ev = "none"
    /\ cap_tags = <<>>
    /\ begin_tags = <<>>
    /\ cap_ev = NoCapEv
    /\ sweep_avg_alpha = DefaultAvgAlpha
    /\ sweep_prev_linear = <<>>
    /\ peak_enabled = FALSE
    /\ peak_env = <<>>
    /\ sweep_start_frac = 0

\* the sweep fields of a window built in a sweep mode hold a span of n
\* steps, planned by the validate_sweep_inputs call of the constructor
SweepPlanned(n) ==
    /\ sweep_end_edit = DefaultSweepStart + n * DefaultSampRate
    /\ center_freqs = PlanCenterFreqs(DefaultSweepStart, sweep_end_edit, DefaultSampRate)
    /\ sweep_buffer = ZeroBuffer(Len(center_freqs))
    /\ plan_ev = PlanEv("ok", DefaultSweepStart, sweep_end_edit, DefaultSampRate)
    /\ last_sweep_sig = Sig(DefaultSweepStart, 0, sweep_end_edit, DefaultSampRate)

\* a window built in another mode has no sweep fields and no plan
SweepUnplanned ==
    /\ sweep_end_edit = DefaultSweepStart + DefaultSampRate
    /\ center_freqs = <<>>
    /\ sweep_buffer = <<>>
    /\ plan_ev = PlanEv("none", 0, 0, 0)
    /\ last_sweep_sig = <<>>

----------------------------------------------------------------------------
(* The sweep of a window built in "wide spectrum" mode *)
InitSweep ==
    /\ mode = "wide spectrum"
    /\ running = FALSE
    /\ now = 0
    /\ antenna_select = "A4"
    /\ antenna_ev = NoAntennaEv
    /\ bins_ev = NoBinsEv
    /\ relief_ev = NoReliefEv
    /\ fft_size = DefaultFftSize
    /\ worker = NoWorker
    /\ SweepConstructed
    /\ FreqIdle
    /\ \E n \in 1..MaxSteps : SweepPlanned(n)
    /\ JamIdle
    /\ TimeIdle

NextSweep ==
    \/ StartSweep
    \/ begin_sweep_timer
    \/ \E getOk \in BOOLEAN, setOk \in BOOLEAN : update_sweep_freq(getOk, setOk)
    \/ \E getOk1 \in BOOLEAN, raw \in 0..MaxVec, getOk2 \in BOOLEAN :
          capture_fft(getOk1, raw, getOk2)
    \/ SweepElapse

SpecSweep == InitSweep /\ [][NextSweep]_vars

\* Qt's event loop runs every callback that is due, and time passes; nothing
\* makes the operator press Start
FairSweep ==
    /\ SpecSweep
    /\ WF_vars(begin_sweep_timer)
    /\ WF_vars(\E getOk \in BOOLEAN, setOk \in BOOLEAN : update_sweep_freq(getOk, setOk))
    /\ WF_vars(\E getOk1 \in BOOLEAN, raw \in 0..MaxVec, getOk2 \in BOOLEAN :
                  capture_fft(getOk1, raw, getOk2))
    /\ WF_vars(SweepElapse)

(* C1: during a running sweep at most one capture_fft callback is pending: *)
(* a tick of the sweep timer that finds one pending schedules no second.   *)
C1_OneCaptureInFlight == Len(cap_timers) <= 1

(* C2: the sweep never livelocks on bad captures: whenever captures of the *)
(* current step have failed, the step pointer eventually moves on (the     *)
(* step is accepted or skipped), whatever the probe and the tuner deliver  *)
(* and however ticks interleave with the pending retries.                  *)
C2_NoLivelock == (step_fails > 0) ~> (step_fails = 0)

\* the step has failed more often than the retry limit, a tick having
\* reset the retry counter in between, and a retry is again pending
C2_Witness == step_fails > MaxCapRetries /\ cap_timers # <<>>

(* C3: a stale capture is retried, and after 3 failed retries of a step    *)
(* the step is skipped: no step sees a retry scheduled after more than 3   *)
(* failed captures.                                                        *)
C3_SkipAfterThreeRetries == (sweep_ev = "retry_stale") => (step_fails <= MaxCapRetries)

----------------------------------------------------------------------------
(* The detector of a window built in "jamming" mode, in front of a         *)
(* spectrum that changes up to MaxSceneChanges times                       *)
InitJam ==
    /\ mode = "jamming"
    /\ running = FALSE
    /\ now = 0
    /\ antenna_select = "A4"
    /\ antenna_ev = NoAntennaEv
    /\ bins_ev = NoBinsEv
    /\ relief_ev = NoReliefEv
    /\ fft_size = DefaultFftSize
    /\ worker = NoWorker
    /\ SweepConstructed
    /\ FreqIdle
    /\ SweepUnplanned
    /\ JamConstructed
    /\ scene \in Scenes
    /\ TimeIdle

NextJam ==
    \/ StartJam
    \/ JamElapse
    \/ check_jamming(scene)
    \/ \E s \in Scenes : SceneChange(s)

SpecJam == InitJam /\ [][NextJam]_vars

(* The same detector in front of a steady spectrum, with an operator who   *)
(* uses the antenna field and the knob fields up to MaxManual times        *)
NextJamOp ==
    \/ StartJam
    \/ JamElapse
    \/ check_jamming(scene)
    \/ \E val \in ManualTexts : ManualAntenna(val)
    \/ ApplyKnobs

SpecJamOp == InitJam /\ [][NextJamOp]_vars

\* a step of check_jamming that fires a port switch
Fires == fire_count' = fire_count + 1

\* a step of check_jamming that evaluates the tick and finds the trigger
\* and the stickiness true
TrueTick ==
    /\ jam_timer = 0
    /\ jam_timer' = JamTickMs
    /\ jam_ev'.kind \in Evaluated
    /\ jam_ev'.cond
    /\ jam_ev'.improves

\* the port that follows p in the cyclic order
PortAfter(p) == Ports[((PortIndex(p) + 1) % Len(Ports)) + 1]

RECURSIVE Rotate(_, _)
Rotate(i, n) == IF n = 0 THEN i ELSE Rotate(NextPortIndex(i), n - 1)

(* C4: two switches fired by the detector are never closer together than   *)
(* jam_cooldown_s (4 s), whatever the probe shows.                         *)
C4_CooldownBetweenFires ==
    [][Fires => (last_fire_at = -1 \/ now - last_fire_at >= jam_cooldown_s)]_vars

\* a second detector-fired switch has happened
C4_Witness == jam_ev.kind = "fire" /\ fire_count >= 2

(* C5: the detector fires on a tick only if on that tick the trigger and   *)
(* the stickiness are both true, the hold was entered at least jam_hold_s  *)
(* (0.4 s) before, at least 0.6 s have passed since the last switch and    *)
(* the cooldown deadline has passed; and never on a tick inside the ready  *)
(* window or the ignore window.                                            *)
C5_FireGuards ==
    [][Fires => /\ jam_ev'.cond /\ jam_ev'.improves
                /\ jam_started # -1
                /\ now - jam_started >= jam_hold_s
                /\ now - jam_last_switch >= DwellMs
                /\ now >= jam_cooldown_until
                /\ now >= jam_ready_at
                /\ now >= jam_ignore_until]_vars

\* the first detector-fired switch of a run has happened
C5_Witness == jam_ev.kind = "fire" /\ fire_count = 1

(* C6: the hold is not sticky: after an evaluated tick on which the        *)
(* trigger or the stickiness was false the hold start is cleared, and a    *)
(* switch is fired only at the end of a run of evaluated ticks, all with   *)
(* trigger and stickiness true, that spans at least jam_hold_s.            *)
C6_HoldNotSticky ==
    /\ (jam_ev.kind \in Evaluated /\ ~(jam_ev.cond /\ jam_ev.improves)) => jam_started = -1
    /\ (jam_ev.kind = "fire") => jam_ev.span >= jam_hold_s

\* a hold that had been entered was ended by a tick with the trigger or
\* the stickiness false
C6_Witness == jam_ev.kind = "armed" /\ jam_ev.broke

C8_NextPortInOrder ==
    [][Fires => /\ antenna_select' = PortAfter(antenna_select)
                /\ current_port_index' = PortIndex(antenna_select')
                /\ \A i \in 0..(Len(Ports) - 1) : Rotate(i, Len(Ports)) = i]_vars

\* a switch fired from a port that the operator had selected
C8_Witness == jam_ev.kind = "fire" /\ jam_ev.manual /\ antenna_select = "A4"

(* C9: the detector fires only if the score EMA of the tick is at least    *)
(* max(1.10, s * 0.5^(age / 8 s) + 0.10), s the score EMA recorded at the  *)
(* previous detector-fired switch and age the time since the last switch.  *)
C9_Stickiness ==
    [][Fires => score_ema' >= Need(last_score_at_switch, now - jam_last_switch)]_vars

\* a switch fired against a required score above the floor of 1.10
C9_Witness == jam_ev.kind = "fire" /\ jam_ev.need > StickFloor

----------------------------------------------------------------------------
(* The time policy of a window built in "time" mode: the operator has      *)
(* typed up to MaxRows rows and presses Start and Stop                     *)
\* the durations of the rows; row k switches to the k-th port of the panel
TimeDurations == UNION { [1..n -> 1..MaxDur] : n \in 1..MaxRows }

InitTime ==
    /\ mode = "time"
    /\ running = FALSE
    /\ now = 0
    /\ antenna_select = "A4"
    /\ antenna_ev = NoAntennaEv
    /\ bins_ev = NoBinsEv
    /\ relief_ev = NoReliefEv
    /\ fft_size = DefaultFftSize
    /\ worker = NoWorker
    /\ SweepConstructed
    /\ FreqIdle
    /\ SweepUnplanned
    /\ JamIdle
    /\ TimeConstructed
    /\ \E d \in TimeDurations :
          time_inputs = [k \in 1..Len(d) |-> [port |-> Ports[k], dur |-> d[k]]]

NextTime ==
    \/ StartTime
    \/ StopTime
    \/ perform_time_switch
    \/ TimeElapse

SpecTime == InitTime /\ [][NextTime]_vars

(* C10: every slot of the time policy ends when the stream has run on its  *)
(* row for exactly the configured duration, however often and wherever in  *)
(* the slot Stop and Start were pressed, and the rows are served in order: *)
(* over a full cycle each port runs for its configured duration.           *)
C10_SlotRunsItsDuration ==
    /\ (time_ev.kind = "done") =>
          /\ time_ev.ran = time_config[time_ev.idx + 1].dur
          /\ last_time_index = (time_ev.idx + 1) % Len(time_config)
    /\ (running /\ time_config # <<>>) =>
          ran[last_time_index] + time_timer = time_config[last_time_index + 1].dur

\* the last row of a cycle of two rows is completed after two pauses
C10_Witness ==
    /\ time_ev.kind = "done"
    /\ Len(time_config) >= 2
    /\ time_ev.idx = Len(time_config) - 1
    /\ time_ev.pauses >= 2

----------------------------------------------------------------------------
(* The time policy with an operator who also edits the rows *)
NextTimeEdit ==
    \/ StartTime
    \/ StopTime
    \/ perform_time_switch
    \/ TimeElapse
    \/ \E rows \in RowEdits(time_inputs) : EditTimeRows(rows)

\* the operator has typed two rows of 2 ms each
InitTimeEdit ==
    /\ mode = "time"
    /\ running = FALSE
    /\ now = 0
    /\ antenna_select = "A4"
    /\ antenna_ev = NoAntennaEv
    /\ bins_ev = NoBinsEv
    /\ relief_ev = NoReliefEv
    /\ fft_size = DefaultFftSize
    /\ worker = NoWorker
    /\ SweepConstructed
    /\ FreqIdle
    /\ SweepUnplanned
    /\ JamIdle
    /\ TimeConstructed
    /\ time_inputs = <<[port |-> Ports[1], dur |-> 2], [port |-> Ports[2], dur |-> 2]>>

SpecTimeEdit == InitTimeEdit /\ [][NextTimeEdit]_vars

\* Start is pressed in time mode and the stream starts
StartStep == mode = "time" /\ ~running /\ running'

----------------------------------------------------------------------------
(* The frequency policy of a window built in "frequency" mode *)
InitFreq ==
    /\ mode = "frequency"
    /\ running = FALSE
    /\ now = 0
    /\ antenna_select = "A4"
    /\ antenna_ev = NoAntennaEv
    /\ bins_ev = NoBinsEv
    /\ relief_ev = NoReliefEv
    /\ fft_size = DefaultFftSize
    /\ worker = NoWorker
    /\ SweepConstructed
    /\ SweepUnplanned
    /\ JamIdle
    /\ TimeIdle
    /\ FreqConstructed

NextFreq ==
    \/ StartFreq
    \/ StopFreq
    \/ \E text \in FreqTexts : update_center_freq(text)
    \/ \E k \in EditedPorts, low \in RangeTexts, high \in RangeTexts :
          refresh_freq_config(k, low, high)

SpecFreq == InitFreq /\ [][NextFreq]_vars

\* ranges i and j are neighbours in the order of the low bounds
Neighbours(t, i, j) ==
    /\ i # j
    /\ t[i].low <= t[j].low
    /\ ~\E k \in 1..Len(t) : k # i /\ k # j /\ t[i].low < t[k].low /\ t[k].low < t[j].low

\* the table is one that the policy must reject
Rejected(t) ==
    \/ \E k \in 1..Len(t) : t[k].low >= t[k].high \/ t[k].high > FreqMax
    \/ \E i \in 1..Len(t), j \in 1..Len(t) : Neighbours(t, i, j) /\ t[i].high >= t[j].low

(* C12: the validation of the port ranges rejects the table exactly when   *)
(* a range has low >= high or high > 4000 MHz, or two ranges that are      *)
(* neighbours in the order of the low bounds overlap or touch.             *)
C12_RejectsExactlyBadTables ==
    (freq_ev.kind \in {"refresh", "start", "freq"}) =>
        (freq_ev.valid <=> ~Rejected(port_inputs))

\* A4 = [0, 100] and A3 = [100, 200] touch and are rejected
C12_Witness ==
    /\ freq_ev.kind = "refresh"
    /\ ~freq_ev.valid
    /\ port_inputs[1] = [low |-> 0, high |-> 1000]
    /\ port_inputs[2] = [low |-> 1000, high |-> 2000]

\* the first port, in the order of the panel, whose range holds f
FirstMatch(t, f) ==
    IF \E k \in 1..Len(t) : t[k].low <= f /\ f <= t[k].high
    THEN Ports[CHOOSE k \in 1..Len(t) :
                  /\ t[k].low <= f /\ f <= t[k].high
                  /\ \A j \in 1..(k - 1) : ~(t[j].low <= f /\ f <= t[j].high)]
    ELSE "none"

(* C13: when the centre frequency changes and the table is valid, the      *)
(* first port in panel order whose range holds the new frequency becomes   *)
(* the active port if it is another one than the active port; otherwise    *)
(* (same port, or no range holds the frequency) the active port stays and  *)
(* no switch is made.                                                      *)
C13_LookupSwitchesToFirstMatch ==
    [][(center_freq' # center_freq /\ validate_port_ranges(port_inputs)) =>
          LET m == FirstMatch(port_inputs, center_freq')
          IN IF m # "none" /\ m # antenna_select
             THEN antenna_select' = m /\ freq_ev'.switched
             ELSE antenna_select' = antenna_select /\ ~freq_ev'.switched
    ]_vars

\* the frequency changed to the upper end of the range of another port,
\* which became the active one
C13_Witness ==
    /\ freq_ev.kind = "freq"
    /\ freq_ev.switched
    /\ center_freq = port_inputs[freq_ev.sel].high
    /\ antenna_select = Ports[freq_ev.sel]

----------------------------------------------------------------------------
(* The sweep of a window built in "wide spectrum" mode whose operator      *)
(* re-plans it: new bounds, a new sample rate, up to MaxManual times       *)

\* texts typed into the Sweep End field (MHz), and rates typed into the
\* sample-rate field (MS/s; more than 20 MS/s is clamped to 20)
EndTexts == {BadText, 80, 110}

RateTexts == {10, 30}

\* the window as constructed: Sweep Start "80e6", Sweep End "100e6"
InitSweepPlan ==
    /\ mode = "wide spectrum"
    /\ running = FALSE
    /\ now = 0
    /\ antenna_select = "A4"
    /\ antenna_ev = NoAntennaEv
    /\ bins_ev = NoBinsEv
    /\ relief_ev = NoReliefEv
    /\ fft_size = DefaultFftSize
    /\ worker = NoWorker
    /\ SweepConstructed
    /\ FreqIdle
    /\ SweepPlanned(1)
    /\ JamIdle
    /\ TimeIdle

\* the vectors the probe delivers while the plan is edited: an unusable one
\* and two usable ones
PlanVecs == {0, 1, 2}

\* the tuner answers every query and follows every retune
NextSweepPlan ==
    \/ StartSweep
    \/ begin_sweep_timer
    \/ update_sweep_freq(TRUE, TRUE)
    \/ \E raw \in PlanVecs : capture_fft(TRUE, raw, TRUE)
    \/ SweepElapse
    \/ \E e \in EndTexts : validate_sweep_inputs(sweep_start_edit, e)
    \/ \E sr \in RateTexts : update_sample_rate(sr)

SpecSweepPlan == InitSweepPlan /\ [][NextSweepPlan]_vars

(* C14: a successful planning of the sweep from start to end at sample     *)
(* rate r leaves numSteps = ceil((end - start) / r) >= 1 centre            *)
(* frequencies, the i-th (from 0) being start + (i + 0.5) * r; 80-100 MHz  *)
(* at 20 MS/s gives one step at 90 MHz, 80-120 MHz gives 90 and 110 MHz.   *)
C14_PlanCoversSpan ==
    (plan_ev.kind = "ok") =>
        LET n == Len(center_freqs)
            span == plan_ev.end - plan_ev.start
            r == plan_ev.rate
        IN /\ n >= 1
           /\ n * r >= span
           /\ (n - 1) * r < span
           /\ \A i \in 0..(n - 1) :
                 2 * center_freqs[i + 1] = 2 * plan_ev.start + (2 * i + 1) * r
           /\ PlanCenterFreqs(80, 100, 20) = <<90>>
           /\ PlanCenterFreqs(80, 120, 20) = <<90, 110>>

\* the operator has re-planned a span that is no multiple of the rate:
\* 80-110 MHz at 20 MS/s is planned as two steps
C14_Witness ==
    /\ manual_ops >= 1
    /\ plan_ev.kind = "ok"
    /\ <<plan_ev.start, plan_ev.end, plan_ev.rate>> = <<80, 110, 20>>
    /\ center_freqs = <<90, 110>>

\* the fallback of a failed planning: np.linspace(0, self.samp_rate, self.fft_size)
FallbackAxis(rate) == [j \in 1..FftBins |-> ((j - 1) * rate * AxisScale) \div (FftBins - 1)]

\* self.freq_axis: every run of validate_sweep_inputs assigns it, the axis of
\* the new plan when the planning succeeds, the fallback when it fails
freq_axis ==
    IF plan_ev.kind = "ok"
    THEN StitchedAxis(PlanCenterFreqs(plan_ev.start, plan_ev.end, plan_ev.rate), plan_ev.rate)
    ELSE FallbackAxis(plan_ev.rate)

\* the bins of the plot: the axis inside last_valid_sweep_start .. _end
x_hz == Masked(freq_axis, plan_ev.start, plan_ev.end)

\* the width of one bin
BinWidth == (plan_ev.rate * AxisScale) \div FftBins

(* C15: the stitched frequency axis of a plan, restricted to [start, end], *)
(* is non-decreasing and holds every in-range bin exactly once: it starts  *)
(* at start, each bin is one bin width above the one before it, also       *)
(* across a step boundary (none duplicated, none missing), and its last    *)
(* bin lies at most one bin width below end.                               *)
C15_AxisTilesSpan ==
    (plan_ev.kind = "ok") =>
        LET x == x_hz
            n == Len(x)
        IN /\ n >= 1
           /\ x[1] = plan_ev.start * AxisScale
           /\ \A i \in 1..(n - 1) :
                 /\ x[i] <= x[i + 1]
                 /\ x[i + 1] = x[i] + BinWidth
           /\ \A i \in 1..n, j \in 1..n : x[i] = x[j] => i = j
           /\ x[n] + BinWidth >= plan_ev.end * AxisScale

\* the operator has planned a span of two steps that ends inside the last
\* step: the axis crosses a step boundary and the mask cuts its tail
C15_Witness ==
    /\ manual_ops >= 1
    /\ plan_ev.kind = "ok"
    /\ Len(center_freqs) = 2
    /\ Len(x_hz) > FftBins
    /\ Len(x_hz) < Len(freq_axis)

\* a step of update_sweep_freq that passes its guard: it retunes (when the
\* tuner is off the step) and queues a capture
Retuned ==
    /\ sweep_timer = 0
    /\ sweep_timer' = SweepTickMs
    /\ begin_timers' = begin_timers
    /\ cap_timers' # cap_timers

\* a step of capture_fft
CaptureRun ==
    /\ cap_timers # <<>>
    /\ Head(cap_timers) = 0
    /\ cap_timers' # cap_timers
    /\ sweep_timer' = sweep_timer
    /\ begin_timers' = begin_timers
    /\ running' = running
    /\ manual_ops' = manual_ops

\* a step of capture_fft that goes past its guards: it reads the tuner and
\* the probe, and retries, skips or writes
Captured == CaptureRun /\ cap_ev'.kind # "guard"

PlanFailed == plan_ev.kind \in {"unparsed", "reversed"}

(* C16: after a planning of the sweep has failed, the old plan is not      *)
(* reused: until a later planning succeeds no tick retunes to a centre     *)
(* frequency of the old list and no capture is performed against it.       *)
C16_FailedPlanHaltsSweep ==
    [][(PlanFailed /\ plan_ev' = plan_ev) => (~Retuned /\ ~Captured)]_vars

(* C17: stale callbacks are ignored: a segment written at step index p     *)
(* comes from a capture taken with the receiver tuned within 1 Hz of       *)
(* center_freqs[p] of the plan in force at the write, and a capture_fft    *)
(* callback that was queued before a re-plan returns at its guard.         *)
C17_StaleCallbacksIgnored ==
    /\ (cap_ev.kind = "write") => ~TunerOff(cap_ev.tuned, cap_ev.cf)
    /\ cap_ev.stale => (cap_ev.kind = "guard")

----------------------------------------------------------------------------
(* The sweep of a window whose operator presses Stop and Start again, up   *)
(* to MaxPauses times                                                      *)
NextSweepStop ==
    \/ StartSweep
    \/ StopSweep
    \/ begin_sweep_timer
    \/ \E setOk \in BOOLEAN : update_sweep_freq(TRUE, setOk)
    \/ \E raw \in 0..MaxVec : capture_fft(TRUE, raw, TRUE)
    \/ SweepElapse

SpecSweepStop == InitSweepPlan /\ [][NextSweepStop]_vars

\* a step of begin_sweep_timer
BeginRun ==
    /\ begin_timers # <<>>
    /\ Head(begin_timers) = 0
    /\ begin_timers' = Tail(begin_timers)

(* C18: Stop leaves no background work: while the stream is stopped the    *)
(* sweep timer is not running, and a callback that was pending at the time *)
(* of Stop does nothing later on: a capture_fft returns at its guard, a    *)
(* delayed begin_sweep_timer does not start the sweep timer, also when     *)
(* Start was pressed again before the callback runs.                       *)
C18_StopLeavesNoWork ==
    /\ [](~running => sweep_timer = -1)
    /\ [](cap_ev.stale => cap_ev.kind = "guard")
    /\ [][(BeginRun /\ Head(begin_tags)) => sweep_timer' = sweep_timer]_vars

----------------------------------------------------------------------------
(* A window of any mode with a periodic timer, whose operator types a      *)
(* malformed number into the centre frequency, sample rate, gain or knob   *)
(* field while the stream runs, up to MaxManual times                      *)

\* _input_error: the message is shown and _stop_stream_safely is called;
\* with the button checked it stops the flowgraph, the timer "tied to" the
\* mode, and unchecks the button
InputError ==
    /\ running
    /\ manual_ops < MaxManual
    /\ manual_ops' = manual_ops + 1
    /\ running' = FALSE
    /\ time_timer' = IF mode = "time" THEN -1 ELSE time_timer
    /\ sweep_timer' = IF mode = "wide spectrum" THEN -1 ELSE sweep_timer
    /\ sweep_active' = IF mode = "wide spectrum" THEN FALSE ELSE sweep_active
    /\ jam_timer' = IF mode = "jamming" THEN -1 ELSE jam_timer
    /\ UNCHANGED <<mode, bins_ev, relief_ev, fft_size, worker, now, antenna_select, antenna_ev, freq_vars>>
    /\ UNCHANGED <<sweep_busy, sweep_ptr, cap_retries, step_freq_hz, tuned, center_freqs,
                   last_fft, sweep_buffer, begin_timers, cap_timers, samp_rate,
                   sweep_start_edit, sweep_end_edit, step_fails, sweep_ev, cap_tags,
                   begin_tags, cap_ev, plan_ev, sweep_avg_alpha, peak_enabled, sweep_prev_linear, peak_env,
                   sweep_start_frac, last_sweep_sig>>
    /\ UNCHANGED <<current_port_index, jam_baseline_db, jam_started,
                   jam_cooldown_until, jam_ready_at, jam_last_switch, jam_ignore_until,
                   baseline_freeze_until, score_ema, last_score_at_switch,
                   jam_band_state, jam_med_state, sfm_ref, occ_req_ema, jam_ev,
                   last_fire_at, fire_count, trig_streak, true_since,
                   scene, scene_changes, port_set_by>>
    /\ UNCHANGED <<time_inputs, time_config, last_time_index, per_port_elapsed,
                   timer_start_time, ran, pauses, time_ev>>

\* the window is built in one of the two sweep modes, in "jamming" mode or
\* in "time" mode
InitHalt ==
    \/ /\ mode \in SweepModes
       /\ running = FALSE
       /\ now = 0
       /\ antenna_select = "A4"
       /\ antenna_ev = NoAntennaEv
       /\ bins_ev = NoBinsEv
       /\ relief_ev = NoReliefEv
       /\ fft_size = DefaultFftSize
       /\ worker = NoWorker
       /\ SweepConstructed
       /\ FreqIdle
       /\ SweepPlanned(1)
       /\ JamIdle
       /\ TimeIdle
    \/ InitJam
    \/ InitTimeEdit

NextHalt ==
    \/ StartSweep
    \/ begin_sweep_timer
    \/ \E setOk \in BOOLEAN : update_sweep_freq(TRUE, setOk)
    \/ \E raw \in 0..MaxVec : capture_fft(TRUE, raw, TRUE)
    \/ SweepElapse
    \/ StartJam
    \/ StartTime
    \/ InputError

SpecHalt == InitHalt /\ [][NextHalt]_vars

\* a step that stops the stream
HaltStep == running /\ ~running'

(* C19: a malformed numeric input while a mode is running halts the loop   *)
(* of that mode: the stream is stopped and the periodic timer of the mode  *)
(* is stopped: the time-policy timer, the detection timer, and the sweep   *)
(* timer with sweep_active cleared in both sweep modes.                    *)
C19_MalformedInputHalts ==
    [][HaltStep =>
         /\ (mode = "time") => time_timer' = -1
         /\ (mode = "jamming") => jam_timer' = -1
         /\ (mode \in SweepModes) => (sweep_timer' = -1 /\ ~sweep_active')]_vars

\* a step that plans the sweep anew: Start, new bounds or a new sample rate
ReplanStep ==
    /\ (manual_ops' = manual_ops + 1) \/ (~running /\ running')
    /\ plan_ev'.kind = "ok"

(* C20: with a plan, 0 <= sweep_ptr < numSteps after every operation; a    *)
(* completed step (accepted capture or skipped step) moves the pointer     *)
(* from i to (i + 1) mod numSteps; a re-plan resets the pointer to 0.      *)
C20_PointerCycles ==
    /\ []((Len(center_freqs) > 0) => (sweep_ptr \in 0..(Len(center_freqs) - 1)))
    /\ [][(CaptureRun /\ cap_ev'.kind \in {"write", "skip"}) =>
              sweep_ptr' = (sweep_ptr + 1) % Len(center_freqs)]_vars
    /\ [][ReplanStep => sweep_ptr' = 0]_vars

\* a capture has been written at the last step of a plan of several steps
\* and the pointer is back at step 0
C20_Witness ==
    /\ Len(center_freqs) >= 2
    /\ cap_ev.kind = "write"
    /\ cap_ev.ptr = Len(center_freqs) - 1
    /\ sweep_ptr = 0
    /\ sweep_buffer[Len(center_freqs)] # 0

\* the plan, the axis and the buffer fit together
PlanConsistent ==
    /\ Len(freq_axis) = Len(center_freqs) * FftBins
    /\ Len(sweep_buffer) = Len(center_freqs)
    /\ freq_axis = StitchedAxis(center_freqs, samp_rate)

(* C21: the sweep plan is consistent whenever a capture is accepted: at    *)
(* every write into the sweep buffer the axis and the buffer have          *)
(* len(center_freqs) * fft_size bins and the axis is the one derived from  *)
(* the current centre frequencies, also after a failed planning has        *)
(* installed the fallback axis and buffer.                                 *)
C21_PlanConsistentAtWrite ==
    [][(CaptureRun /\ cap_ev'.kind = "write") => PlanConsistent']_vars

----------------------------------------------------------------------------
(* The detector in front of a spectrum that swings between an interferer   *)
(* and a gain step, with an operator who confirms the knob fields          *)

ValveScenes == {s \in Scenes : s.name \in {"strong30", "step"}}

\* the spectrum changes, up to MaxSceneChanges + MaxManual times
SceneSwing(s) ==
    /\ mode = "jamming"
    /\ jam_timer = 0
    /\ scene_changes < MaxSceneChanges + MaxManual
    /\ s # scene
    /\ scene' = s
    /\ scene_changes' = scene_changes + 1
    /\ UNCHANGED <<mode, bins_ev, relief_ev, fft_size, worker, running, now, antenna_select, antenna_ev, sweep_vars, freq_vars, time_vars,
                   manual_ops>>
    /\ SceneFrame

InitJamValve == InitJam /\ scene.name = "strong30"

NextJamValve ==
    \/ StartJam
    \/ JamElapse
    \/ check_jamming(scene)
    \/ \E s \in ValveScenes : SceneSwing(s)
    \/ ApplyKnobs

SpecJamValve == InitJamValve /\ [][NextJamValve]_vars

\* a tick of the detection timer
JamTick == jam_timer = 0 /\ jam_timer' = JamTickMs

\* a tick that gets as far as comparing the medians and finds the current
\* one more than 8 dB above the baseline
ValveTick ==
    /\ JamTick
    /\ running /\ scene.ok
    /\ now >= jam_ignore_until
    /\ jam_baseline_db # "None"
    /\ now >= jam_ready_at
    /\ scene.med > ValveLiftDb

(* C22: safety valve: on a tick where the masked median of the current     *)
(* spectrum is more than 8 dB above the masked median of the baseline the  *)
(* baseline is set to the current spectrum and no switch fires, and no     *)
(* switch fires during the following 0.8 s.                                *)
C22_SafetyValve ==
    /\ [][ValveTick => (jam_baseline_db' = "copy" /\ ~Fires)]_vars
    /\ [][Fires => ~(now < jam_ev.valve)]_vars

----------------------------------------------------------------------------
(* The detector in front of a steady interferer, stopped and started again *)
(* up to MaxPauses times                                                   *)
NextJamRestart ==
    \/ StartJam
    \/ StopJam
    \/ JamElapse
    \/ check_jamming(scene)

SpecJamRestart == InitJamValve /\ [][NextJamRestart]_vars

\* a step of toggle_stream that starts detection
JamStartStep == mode = "jamming" /\ ~running /\ running'

\* the detector state of a run that has not ticked yet
FreshDetector ==
    /\ jam_baseline_db = "None"
    /\ jam_started = -1
    /\ jam_cooldown_until = 0
    /\ score_ema = 0
    /\ last_score_at_switch = 0
    /\ Need(last_score_at_switch, now - jam_last_switch) = StickFloor
    /\ ~jam_band_state
    /\ ~jam_med_state

(* C23: each start of detection begins with a fresh detector state:        *)
(* baseline unset, hold and cooldown cleared, score EMA 0, score at the    *)
(* last switch 0 so that the first required score is 1.10, both hysteresis *)
(* flags off.                                                              *)
C23_StartIsFresh == [][JamStartStep => FreshDetector']_vars

----------------------------------------------------------------------------
(* The sweep while the operator turns the "Avg" spin box                   *)

\* the values the operator sets the spin box to (its range is 0.00 .. 1.00)
AvgTexts == {0, 100}

\* _on_sweep_avg_changed: the valueChanged slot of the spin box
on_sweep_avg_changed(val) ==
    /\ mode \in SweepModes
    /\ manual_ops < MaxManual
    /\ manual_ops' = manual_ops + 1
    /\ val # sweep_avg_alpha
    /\ sweep_avg_alpha' = val
    /\ sweep_prev_linear' = IF val <= 0 THEN <<>> ELSE sweep_prev_linear
    /\ UNCHANGED <<peak_enabled, peak_env>>
    /\ UNCHANGED <<mode, bins_ev, relief_ev, fft_size, worker, running, now, antenna_select, antenna_ev, sweep_active, sweep_busy,
                   sweep_ptr, cap_retries, step_freq_hz, tuned, center_freqs, last_fft,
                   sweep_buffer, sweep_timer, begin_timers, cap_timers, samp_rate,
                   sweep_start_edit, sweep_end_edit, step_fails, sweep_ev, cap_tags,
                   begin_tags, cap_ev, plan_ev, sweep_start_frac, last_sweep_sig,
                   time_vars, freq_vars>>
    /\ JamRestFrame

NextSweepAvg ==
    \/ StartSweep
    \/ begin_sweep_timer
    \/ \E setOk \in BOOLEAN : update_sweep_freq(TRUE, setOk)
    \/ \E raw \in 0..MaxVec : capture_fft(TRUE, raw, TRUE)
    \/ SweepElapse
    \/ \E val \in AvgTexts : on_sweep_avg_changed(val)

SpecSweepAvg == InitSweepPlan /\ [][NextSweepAvg]_vars

\* a run of capture_fft that drew the trace
TraceDrawn == CaptureRun /\ cap_ev'.kind = "write" /\ plan_ev.kind = "ok"

(* C24: with the smoothing factor 0 the trace computed on every accepted   *)
(* capture equals the current sweep-buffer values: it follows new captures *)
(* and does not depend on earlier frames.                                  *)
C24_ZeroAlphaNoSmoothing ==
    [][(TraceDrawn /\ sweep_avg_alpha = 0) => sweep_prev_linear' = sweep_buffer']_vars

----------------------------------------------------------------------------
(* The sweep while the operator confirms bounds that differ from the       *)
(* planned ones by less than the signature resolves                        *)

\* what the operator types below the MHz of Sweep Start, in 1/100 Hz
StartFracs == {0, 4}

\* the Sweep End texts: no frequency, the end planned at construction and
\* an end one step further
ReplanEnds == {BadText, DefaultSweepStart + DefaultSampRate, 110}

NextReplan ==
    \/ StartSweep
    \/ begin_sweep_timer
    \/ update_sweep_freq(TRUE, TRUE)
    \/ \E raw \in PlanVecs : capture_fft(TRUE, raw, TRUE)
    \/ SweepElapse
    \/ \E f \in StartFracs, e \in ReplanEnds : validate_sweep_text(sweep_start_edit, f, e)

SpecReplan == InitSweepPlan /\ [][NextReplan]_vars

\* a planning that found the signature of the last plan
SameSigReplan == ReplanStep /\ plan_ev'.same

----------------------------------------------------------------------------
\* a step in which the operator confirmed the antenna field
FieldCall == antenna_ev'.typed = antenna_ev.typed + 1

(* C26: the active port is always one of A1..A4, B1..B4: update_antenna    *)
(* with any other text leaves the active port, the detector state and the  *)
(* hardware untouched and emits no antenna_changed event, while a valid    *)
(* identifier sets the active port and emits exactly one antenna_changed   *)
(* event carrying it.                                                      *)
C26_PortAlwaysValid ==
    /\ [](antenna_select \in ValidAntennas /\ antenna_ev.hw = antenna_select)
    /\ [][(FieldCall /\ StripUpper(antenna_ev'.text) \notin ValidAntennas) =>
             /\ antenna_select' = antenna_select
             /\ antenna_ev'.hw = antenna_ev.hw
             /\ antenna_ev'.emitted = 0
             /\ JamRestFrame]_vars
    /\ [][(FieldCall /\ StripUpper(antenna_ev'.text) \in ValidAntennas) =>
             /\ antenna_select' = StripUpper(antenna_ev'.text)
             /\ antenna_ev'.emitted = 1
             /\ antenna_ev'.carried = antenna_select']_vars

\* the detector has moved the port on and the operator then confirms a text
\* that names no port
C26_Witness ==
    /\ fire_count >= 1
    /\ antenna_ev.typed = 1
    /\ antenna_ev.text = "C9"
    /\ antenna_ev.emitted = 0

----------------------------------------------------------------------------
(* C27: after a detector-fired switch the baseline is the current          *)
(* spectrum, the flatness reference the current flatness, the hold is      *)
(* cleared, the baseline is frozen until now + 0.6 s, the cooldown lasts   *)
(* until now + cooldownSeconds, the detector is ready at now + 0.8 s and   *)
(* the stickiness baseline is the current score EMA; these values, not the *)
(* cleared baseline and the 1.5 s of update_antenna, are in force on the   *)
(* next tick.                                                              *)
C27_StateAfterFire ==
    [][Fires =>
         /\ jam_baseline_db' = "copy"
         /\ sfm_ref' = scene.sfm
         /\ jam_started' = -1
         /\ baseline_freeze_until' = now + FreezeMs
         /\ jam_cooldown_until' = now + jam_cooldown_s
         /\ jam_ready_at' = now + ReadyAfterSwitchMs
         /\ jam_last_switch' = now
         /\ last_score_at_switch' = score_ema']_vars

\* the tick that follows a detector-fired switch has run with the re-armed
\* values: it was not ready, and left the frozen baseline alone
C27_Witness ==
    /\ fire_count = 1
    /\ jam_ev.kind = "notready"
    /\ now = last_fire_at + JamTickMs
    /\ jam_baseline_db = "copy"
    /\ jam_ready_at = last_fire_at + ReadyAfterSwitchMs

----------------------------------------------------------------------------
\* a tick inside the freeze window
FrozenTick == JamTick /\ now < baseline_freeze_until

\* a tick that found the pre-trigger and did not switch
PreTick == JamTick /\ jam_ev'.kind \in Evaluated /\ jam_ev'.pre /\ ~Fires

(* C28: the baseline average is applied only outside the freeze window: on *)
(* a tick with now < freeze deadline the averaging step leaves the         *)
(* baseline alone (a safety-valve snap, a switch or the first tick after a *)
(* reset may still replace it); a pre-trigger tick arms the window for     *)
(* 0.6 s unless it is still running, and every detector-fired switch arms  *)
(* it for 0.6 s.                                                           *)
C28_BaselineFreeze ==
    /\ [][FrozenTick =>
             /\ ~jam_ev'.avg
             /\ \/ jam_baseline_db' = jam_baseline_db
                \/ ValveTick
                \/ Fires
                \/ jam_baseline_db = "None"]_vars
    /\ [][(JamTick /\ jam_baseline_db' = "ema" /\ jam_baseline_db # "ema") =>
             now >= baseline_freeze_until]_vars
    /\ [][PreTick =>
             baseline_freeze_until' =
                 IF now >= baseline_freeze_until THEN now + FreezeMs
                 ELSE baseline_freeze_until]_vars
    /\ [][Fires => baseline_freeze_until' = now + FreezeMs]_vars

\* a tick inside the window armed by an earlier pre-trigger tick has found
\* the pre-trigger again and has left the baseline and the window alone
C28_Witness ==
    /\ jam_ev.kind = "hold"
    /\ jam_ev.pre
    /\ ~jam_ev.avg
    /\ fire_count = 0
    /\ baseline_freeze_until > now
    /\ baseline_freeze_until < now + FreezeMs

----------------------------------------------------------------------------
(* The detector in front of a spectrum whose level moves by small gain     *)
(* steps: every bin 1.3 dB or 3 dB above the baseline, or at the baseline  *)
HystScenes ==
    { [name |-> "quiet",  ok |-> TRUE, cnt |-> 0, run |-> 0, band |-> 0,
       med |-> 0,   sfm |-> 0 - 250],
      [name |-> "lift13", ok |-> TRUE, cnt |-> 0, run |-> 0, band |-> 130,
       med |-> 130, sfm |-> 0 - 250],
      [name |-> "lift3",  ok |-> TRUE, cnt |-> 0, run |-> 0, band |-> 300,
       med |-> 300, sfm |-> 0 - 250] }

InitJamHyst ==
    /\ mode = "jamming"
    /\ running = FALSE
    /\ now = 0
    /\ antenna_select = "A4"
    /\ antenna_ev = NoAntennaEv
    /\ bins_ev = NoBinsEv
    /\ relief_ev = NoReliefEv
    /\ fft_size = DefaultFftSize
    /\ worker = NoWorker
    /\ SweepConstructed
    /\ FreqIdle
    /\ SweepUnplanned
    /\ JamConstructed
    /\ scene \in HystScenes
    /\ TimeIdle

NextJamHyst ==
    \/ StartJam
    \/ JamElapse
    \/ check_jamming(scene)
    \/ \E s \in HystScenes : SceneSwing(s)

SpecJamHyst == InitJamHyst /\ [][NextJamHyst]_vars

\* a tick that evaluated the trigger
EvalTick == JamTick /\ jam_ev'.kind \in Evaluated

\* the flag follows its two thresholds: on (1/100 dB) and max(0.5, on - 0.8)
Hysteresis(lift, on, state, state1) ==
    LET off == Max(50, on - 80)
    IN /\ (~state /\ state1) => (EvalTick /\ lift >= on)
       /\ (state /\ ~state1) => (EvalTick /\ lift < off)
       /\ (EvalTick /\ state /\ lift >= off) => state1
       /\ (EvalTick /\ ~state /\ lift >= on) => state1
       /\ (off < lift /\ lift < on) => state1 = state

(* C29: each hysteresis flag (band, median) has the thresholds ON and      *)
(* OFF = max(0.5, ON - 0.8) dB: a flag that is off turns on only on a tick *)
(* whose lift is >= ON, a flag that is on stays on for every tick whose    *)
(* lift is >= OFF and turns off only on a tick whose lift is < OFF; a lift *)
(* strictly between OFF and ON never changes the flag.                     *)
C29_Hysteresis ==
    [][/\ Hysteresis(scene.band, jam_band_db, jam_band_state, jam_band_state')
       /\ Hysteresis(scene.med, jam_median_db, jam_med_state, jam_med_state')]_vars

\* both flags were on and a tick with both lifts between OFF and ON has
\* kept them on
C29_Witness ==
    /\ scene.name = "lift13"
    /\ jam_ev.kind \in Evaluated
    /\ jam_band_state
    /\ jam_med_state
    /\ scene_changes >= 1

----------------------------------------------------------------------------
(* The minimum-bin guard of check_jamming over the FFT sizes of the combo  *)
(* box and the counts of bins over the threshold up to MaxOver             *)
MaxOver == 100

FftSizes == {32, 64, 128, 256, 512, 1024, 2048, 4096, 8192, 16384}

\* enough_bins = (int(np.sum(over)) >= min_bins), for the mask of size n
EnoughBins(n, c) ==
    /\ mode = "jamming"
    /\ bins_ev' = BinsEv(n, c)
    /\ UNCHANGED <<mode, relief_ev, fft_size, worker, running, now, antenna_select, antenna_ev, sweep_vars, jam_vars,
                   time_vars, freq_vars>>

NextBins == \E n \in FftSizes, c \in 0..MaxOver : EnoughBins(n, c)

SpecBins == InitJam /\ [][NextBins]_vars

(* C30: enoughBins holds exactly when the count of over-threshold masked   *)
(* bins is >= max(6, 0.006 * N) for the masked bin count N, for every N    *)
(* produced by the FFT sizes 32 .. 16384.                                  *)
C30_EnoughBinsExact ==
    bins_ev.enough <=>
        1000 * bins_ev.over >= Max(6000, 6 * MaskCount(bins_ev.fft))

(* C30, amended: enoughBins holds exactly when the count is                *)
(* >= max(6, floor(0.006 * N)): at least 6, and more than 0.006 * N - 1.   *)
C30_EnoughBinsFloor ==
    bins_ev.enough <=>
        /\ bins_ev.over >= 6
        /\ 1000 * (bins_ev.over + 1) > 6 * MaskCount(bins_ev.fft)

\* at 1024 bins the mask keeps 1011, 0.006 * 1011 = 6.066, and 6 bins over
\* the threshold are enough
C30_Witness ==
    /\ bins_ev.fft = 1024
    /\ MaskCount(bins_ev.fft) = 1011
    /\ bins_ev.over = 6
    /\ bins_ev.enough

----------------------------------------------------------------------------
(* The occupancy requirement of check_jamming over the occupancy knob, the *)
(* FFT sizes up to 1024, the flatness around the two relief tiers and the  *)
(* smoothed requirement of the tick before                                 *)

\* texts of the occupancy field (0.0 .. 1.0), in 1/10000
OccKnobs == {0, 2000, 2300, 5000, 10000}

ReliefFftSizes == {n \in FftSizes : n <= 1024}

\* sfm_db, in 1/100 dB
ReliefSfms == {0 - 500, 0 - 400, 0 - 375, 0 - 350, 0 - 250}

\* self._occ_req_ema before the tick (None = -1)
PrevReqs == {0 - 1, 1000, 2500, 4500}

OccRequirement(occ_min, n, sfm_db, prev) ==
    /\ mode = "jamming"
    /\ relief_ev' = ReliefEv(occ_min, n, sfm_db, prev)
    /\ UNCHANGED <<mode, bins_ev, fft_size, worker, running, now, antenna_select, antenna_ev, sweep_vars,
                   jam_vars, time_vars, freq_vars>>

NextRelief ==
    \E occ_min \in OccKnobs, n \in ReliefFftSizes, sfm_db \in ReliefSfms, prev \in PrevReqs :
        OccRequirement(occ_min, n, sfm_db, prev)

SpecRelief == InitJamValve /\ [][NextRelief]_vars

(* C31: the flatness relief only relaxes the occupancy requirement: for    *)
(* every clamped base requirement in [0.10, 0.45] and every flatness the   *)
(* requirement after the relief tier is <= the one before it and >= 0.10,  *)
(* and the smoothed effective requirement lies in [0.10, 0.45].            *)
C31_ReliefOnlyRelaxes ==
    relief_ev.done =>
        /\ relief_ev.base \in 1000..4500
        /\ relief_ev.req <= relief_ev.base
        /\ relief_ev.req >= 1000
        /\ relief_ev.eff \in 1000..4500

\* the parts of C31 that do not compare the requirement with the base
ReliefInRange ==
    relief_ev.done =>
        /\ relief_ev.base \in 1000..4500
        /\ relief_ev.req \in 1000..4500
        /\ relief_ev.eff \in 1000..4500

----------------------------------------------------------------------------
(* The sweep while the operator uses the peak-hold overlay                 *)

\* _on_peak_toggle: the toggled slot of the peak-hold button
on_peak_toggle(on) ==
    /\ mode \in SweepModes
    /\ manual_ops < MaxManual
    /\ manual_ops' = manual_ops + 1
    /\ on # peak_enabled
    /\ peak_enabled' = on
    /\ peak_env' = IF ~on THEN <<>> ELSE peak_env
    /\ UNCHANGED <<mode, bins_ev, relief_ev, fft_size, worker, running, now, antenna_select, antenna_ev, sweep_active, sweep_busy,
                   sweep_ptr, cap_retries, step_freq_hz, tuned, center_freqs, last_fft,
                   sweep_buffer, sweep_timer, begin_timers, cap_timers, samp_rate,
                   sweep_start_edit, sweep_end_edit, step_fails, sweep_ev, cap_tags,
                   begin_tags, cap_ev, plan_ev, sweep_start_frac, last_sweep_sig,
                   sweep_avg_alpha, sweep_prev_linear, time_vars, freq_vars>>
    /\ JamRestFrame

\* _on_click with the right button: the envelope is reset
on_click ==
    /\ mode \in SweepModes
    /\ manual_ops < MaxManual
    /\ manual_ops' = manual_ops + 1
    /\ peak_env' = <<>>
    /\ UNCHANGED <<mode, bins_ev, relief_ev, fft_size, worker, running, now, antenna_select, antenna_ev, sweep_active, sweep_busy,
                   sweep_ptr, cap_retries, step_freq_hz, tuned, center_freqs, last_fft,
                   sweep_buffer, sweep_timer, begin_timers, cap_timers, samp_rate,
                   sweep_start_edit, sweep_end_edit, step_fails, sweep_ev, cap_tags,
                   begin_tags, cap_ev, plan_ev, sweep_start_frac, last_sweep_sig,
                   sweep_avg_alpha, peak_enabled, sweep_prev_linear, time_vars, freq_vars>>
    /\ JamRestFrame

NextPeak ==
    \/ StartSweep
    \/ begin_sweep_timer
    \/ update_sweep_freq(TRUE, TRUE)
    \/ \E raw \in PlanVecs : capture_fft(TRUE, raw, TRUE)
    \/ SweepElapse
    \/ \E on \in BOOLEAN : on_peak_toggle(on)
    \/ on_click

SpecPeak == InitSweepPlan /\ [][NextPeak]_vars

\* the dB trace on the plot
DbTrace == DbOf(sweep_prev_linear)

\* the peak-hold button is switched off
PeakOff == peak_enabled /\ ~peak_enabled'

----------------------------------------------------------------------------
\* update_center_freq found another frequency than the stored one and an
\* invalid table
AbortedChange == freq_ev'.kind = "freq" /\ ~freq_ev'.valid

(* C33: in frequency mode, a change of the centre frequency requested      *)
(* while the port-range table is invalid is aborted with the state         *)
(* unchanged: the stored centre frequency keeps its value, which is what   *)
(* the receiver is tuned to, the receiver is not retuned, the active port  *)
(* stays and a running stream is halted.                                   *)
C33_AbortKeepsState ==
    [][AbortedChange =>
          /\ center_freq' = center_freq
          /\ center_freq' = freq_ev'.tuned
          /\ freq_ev'.tuned = freq_ev.tuned
          /\ antenna_select' = antenna_select
          /\ ~running']_vars

\* what does hold of an aborted change: no retune, no switch, the stream halted
AbortKeepsReceiver ==
    [][AbortedChange =>
          /\ freq_ev'.tuned = freq_ev.tuned
          /\ antenna_select' = antenna_select
          /\ ~running']_vars

----------------------------------------------------------------------------
\* a range of the table holds the centre frequency
CentreMatched ==
    \E k \in 1..Len(port_inputs) :
        InRange(port_inputs[k].low, center_freq, port_inputs[k].high)

\* the range of the active port holds the centre frequency
ActiveHoldsCentre ==
    \E k \in 1..Len(port_inputs) :
        /\ Ports[k] = antenna_select
        /\ InRange(port_inputs[k].low, center_freq, port_inputs[k].high)

(* C37: while frequency mode is running, the active port is the port whose *)
(* range holds the centre frequency: after Start and after every accepted  *)
(* edit of the centre frequency or of a port range that leaves a valid     *)
(* table with a range that holds the centre frequency.                     *)
C37_ActivePortHoldsCentre ==
    (running /\ freq_ev.kind \in {"start", "freq", "refresh"} /\ freq_ev.valid /\ CentreMatched)
        => ActiveHoldsCentre

\* after an accepted edit of the centre frequency it does hold
ActiveHoldsCentreAfterEdit ==
    (freq_ev.kind = "freq" /\ freq_ev.valid /\ CentreMatched) => ActiveHoldsCentre

----------------------------------------------------------------------------
(* The frequency policy while the operator types bounds into the range     *)
(* fields of the second and the third port, "nan" among them               *)

NanTexts == {0, 500, 1000, 1500, NaN}

NanPorts == {2, 3}

MaxEdits == 2          \* range fields edited in one run

NextFreqNan ==
    \/ StartFreq
    \/ StopFreq
    \/ \E k \in NanPorts, low \in NanTexts, high \in NanTexts :
          RangeEdit(k, low, high, MaxEdits)

SpecFreqNan == InitFreq /\ [][NextFreqNan]_vars

\* two ranges have a frequency in common or touch
Meet(a, b) == FAtLeast(a.high, b.low) /\ FAtLeast(b.high, a.low)

\* the ports whose range holds f
Holders(t, f) == {k \in 1..Len(t) : InRange(t[k].low, f, t[k].high)}

(* C38: in every table the validation accepts, the ranges are pairwise     *)
(* disjoint and do not touch, so that every centre frequency is held by at *)
(* most one range.                                                         *)
C38_AcceptedTablesDisjoint ==
    validate_port_ranges(port_inputs) =>
        /\ \A i \in 1..Len(port_inputs), j \in 1..Len(port_inputs) :
              i # j => ~Meet(port_inputs[i], port_inputs[j])
        /\ \A f \in NanTexts \ {NaN} : Cardinality(Holders(port_inputs, f)) <= 1

\* the same of the tables made of numbers only
Numeric(t) == \A k \in 1..Len(t) : t[k].low # NaN /\ t[k].high # NaN

NumericTablesDisjoint ==
    (Numeric(port_inputs) /\ validate_port_ranges(port_inputs)) =>
        \A i \in 1..Len(port_inputs), j \in 1..Len(port_inputs) :
            i # j => ~Meet(port_inputs[i], port_inputs[j])

----------------------------------------------------------------------------
(* C34: a hold does not survive a suppression of the detector (ignore      *)
(* window, ready window, missing or invalid capture): a switch fires only  *)
(* after at least holdSeconds of evaluated ticks with trigger and          *)
(* stickiness true that no suppressed tick interrupts, so the first tick   *)
(* evaluated after a suppression cannot fire.                              *)
C34_HoldRestartsAfterSuppression ==
    jam_ev.kind = "fire" => last_fire_at - jam_ev.fresh >= jam_hold_s

----------------------------------------------------------------------------
(* Detection while the operator starts and stops it, types into the       *)
(* antenna field and picks another FFT size                                *)

\* the sizes picked in the FFT combo box
JamFftSizes == {512, 1024}

AllNow == 2500         \* ms of detection watched in these runs

(* update_fft_size in jamming mode: the flowgraph is stopped, the blocks   *)
(* are rebuilt for the new size (_reinit_jamming_dsp_chain) and the        *)
(* flowgraph and the detection timer are started again if it was running   *)
update_fft_size(size) ==
    /\ mode = "jamming"
    /\ manual_ops < MaxManual
    /\ manual_ops' = manual_ops + 1
    /\ size # fft_size
    /\ fft_size' = size
    /\ jam_baseline_db' = "None"
    /\ jam_started' = -1
    /\ jam_cooldown_until' = 0
    /\ jam_ready_at' = now + ReadyAfterChangeMs
    /\ jam_timer' = IF running THEN JamTickMs ELSE -1
    /\ UNCHANGED <<mode, bins_ev, relief_ev, worker, running, now, antenna_select, antenna_ev,
                   sweep_vars, freq_vars, time_vars, current_port_index, jam_last_switch,
                   jam_ignore_until, baseline_freeze_until, score_ema,
                   last_score_at_switch, jam_band_state, jam_med_state, sfm_ref,
                   occ_req_ema, jam_ev, last_fire_at, fire_count, trig_streak,
                   true_since, port_set_by, scene, scene_changes>>

NextJamAll ==
    \/ StartJam
    \/ StopJam
    \/ JamElapseWithin(AllNow)
    \/ check_jamming(scene)
    \/ \E val \in ManualTexts : ManualAntenna(val)
    \/ \E size \in JamFftSizes : update_fft_size(size)

SpecJamAll == InitJamValve /\ [][NextJamAll]_vars

(* C35: the cooldown deadline set by a detector-fired switch is never      *)
(* moved earlier: whatever the operator does in between (FFT size change,  *)
(* Stop and Start, manual antenna change), the detector fires no switch    *)
(* before cooldownSeconds have elapsed since the switch it fired last.     *)
C35_CooldownKept ==
    (jam_ev.kind = "fire" /\ jam_ev.gap # -1) => jam_ev.gap >= jam_cooldown_s

(* C36: in detection mode the rotation index denotes the active port,      *)
(* ports[current_port_index] = antenna_select, after every operation:      *)
(* detector-fired switch, valid or invalid manual antenna entry, Start,    *)
(* Stop, FFT size change.                                                  *)
C36_IndexDenotesPort ==
    mode = "jamming" => Ports[current_port_index + 1] = antenna_select

\* the detector has rotated on from the port the operator typed: B1, the
\* last of the ports, to A4, the first
C36_Witness ==
    /\ jam_ev.kind = "fire"
    /\ port_set_by = "detector"
    /\ antenna_ev.typed >= 1
    /\ current_port_index = 0
    /\ antenna_select = "A4"

----------------------------------------------------------------------------
(* The latency test of the Delay Tools dialog: PortSwitchWorker.run in its *)
(* own thread, on_run_clicked and on_stop_clicked in the GUI thread.  The  *)
(* worker is a record:                                                     *)
(*   pc          where run() stands ("none": no worker yet)                *)
(*   num_cycles  self.num_cycles                                           *)
(*   cycle       the iterations of the for loop completed                  *)
(*   stop        self._stop                                                *)
(*   cmds        history: the ports of the hackrf_operacake commands run   *)
(*   lat         len(lat)                                                  *)
(*   failed      history: a command failed (error was emitted)             *)
(*   finished    history: the emissions of finished                        *)
(*   stats       what finished carried: "nan" or "numbers"                 *)
(*   stopped_at  history: len(cmds) when stop() was called (-1 = not)      *)

MaxCycles == 2         \* the cycles typed into the dialog are 0 .. MaxCycles

\* ports=("A4", "B4") of on_run_clicked
TestPorts == <<"A4", "B4">>

\* the loop never looks at the flag
StopNever(w) == FALSE

\* "if self._stop: break"
StopSeen(w) == w.stop

\* on_run_clicked with a well-formed number of cycles, the tool installed and
\* a board connected: a new worker is created and started
on_run_clicked(n) ==
    /\ worker.pc \in {"none", "done"}
    /\ worker' = [NoWorker EXCEPT !.pc = "top", !.num_cycles = n]

\* on_stop_clicked: worker.stop() if the worker is running
on_stop_clicked ==
    /\ worker.pc \notin {"none", "done"}
    /\ ~worker.stop
    /\ worker' = [worker EXCEPT !.stop = TRUE, !.stopped_at = Len(worker.cmds)]

\* "for _ in range(self.num_cycles): if self._stop: break"
LoopTop ==
    /\ worker.pc = "top"
    /\ worker' = [worker EXCEPT !.pc = IF worker.cycle >= worker.num_cycles \/ StopSeen(worker)
                                      THEN "emit" ELSE "run0"]

\* _switch_once(self.ports[k]): subprocess.run of the command; ok: it
\* returned 0 (otherwise error is emitted)
IssueSwitch(k, ok) ==
    /\ worker.pc = (IF k = 0 THEN "run0" ELSE "run1")
    /\ worker' = [worker EXCEPT !.pc = IF k = 0 THEN "ret0" ELSE "ret1",
                                !.cmds = Append(@, TestPorts[k + 1]),
                                !.failed = @ \/ ~ok]

\* _switch_once returns the latency: lat.append(ms)
Measured(k) ==
    /\ worker.pc = (IF k = 0 THEN "ret0" ELSE "ret1")
    /\ worker' = [worker EXCEPT !.pc = IF k = 0 THEN "chk0" ELSE "chk1", !.lat = @ + 1]

\* "if self._stop: break" after a switch
CheckStop(k) ==
    /\ worker.pc = (IF k = 0 THEN "chk0" ELSE "chk1")
    /\ worker' = [worker EXCEPT !.pc = IF StopSeen(worker) THEN "emit"
                                      ELSE IF k = 0 THEN "sleep0" ELSE "sleep1"]

\* time.sleep(self.dwell_s) is over
Slept(k) ==
    /\ worker.pc = (IF k = 0 THEN "sleep0" ELSE "sleep1")
    /\ worker' = [worker EXCEPT !.pc = IF k = 0 THEN "run1" ELSE "top",
                                !.cycle = IF k = 0 THEN @ ELSE @ + 1]

\* "if lat: self.finished.emit(max, min, avg)  else: self.finished.emit(nan, nan, nan)"
EmitFinished ==
    /\ worker.pc = "emit"
    /\ worker' = [worker EXCEPT !.pc = "done", !.finished = @ + 1,
                                !.stats = IF worker.lat > 0 THEN "numbers" ELSE "nan"]

WorkerStep ==
    \/ LoopTop
    \/ \E k \in {0, 1}, ok \in BOOLEAN : IssueSwitch(k, ok)
    \/ \E k \in {0, 1} : Measured(k)
    \/ \E k \in {0, 1} : CheckStop(k)
    \/ \E k \in {0, 1} : Slept(k)
    \/ EmitFinished

WorkerFrame ==
    UNCHANGED <<mode, bins_ev, relief_ev, fft_size, running, now, antenna_select, antenna_ev,
                sweep_vars, jam_vars, time_vars, freq_vars>>

NextWorker ==
    \/ (\E n \in 0..MaxCycles : on_run_clicked(n)) /\ WorkerFrame
    \/ on_stop_clicked /\ WorkerFrame
    \/ WorkerStep /\ WorkerFrame

SpecWorker == InitFreq /\ [][NextWorker]_vars

(* C39: a run of the latency-test worker issues the switch commands        *)
(* ports[0], ports[1], ports[0], ... starting with ports[0], at most       *)
(* 2 * num_cycles of them; after stop() is called at any point at most one *)
(* further command is issued; finished is emitted exactly once per run,    *)
(* when the run ends, with NaN statistics exactly when no switch was       *)
(* measured.                                                               *)
C39_LatencyWorker ==
    /\ \A i \in 1..Len(worker.cmds) : worker.cmds[i] = TestPorts[((i - 1) % 2) + 1]
    /\ Len(worker.cmds) <= 2 * worker.num_cycles
    /\ worker.stopped_at # -1 => Len(worker.cmds) <= worker.stopped_at + 1
    /\ worker.finished = (IF worker.pc = "done" THEN 1 ELSE 0)
    /\ worker.pc = "done" => (worker.stats = "nan" <=> worker.lat = 0)

\* a run stopped during the dwell after the first command: the second
\* command is still issued, the run ends with statistics
C39_Witness ==
    /\ worker.pc = "done"
    /\ worker.stopped_at = 1
    /\ worker.cmds = <<"A4", "B4">>
    /\ worker.num_cycles = 2
    /\ worker.stats = "numbers"

====
